---- MODULE Spec2Model ----
(***************************************************************************)
(* Verification model of the python-database access layer:                 *)
(*   - the chunk codec            (main/functions/format_conversion.py)    *)
(*   - the pool registry          (pydb/main/func/create_db_pool.py,       *)
(*                                 main/func/create_db_pool.py)            *)
(*   - the relational connector   (pydb/util/mysql/main.py)                *)
(*   - the dispatch facade        (pydb/main/database.py)                  *)
(* Each component has its own specification over the shared variables; the *)
(* variables of the other components keep their initial value.             *)
(***************************************************************************)
EXTENDS Integers, Sequences, FiniteSets, TLC

VARIABLES
    c_identifier,   \* codec: the identifier handed to _split_
    c_sequence,     \* codec: the sequence handed to _split_ (a sequence of characters)
    c_size,         \* codec: the size handed to _split_
    c_chunks,       \* codec: outcome of _split_ (the list later handed to _merge_)
    c_merged,       \* codec: outcome of _merge_
    c_pc,           \* codec: "start" | "split" | "merged" | "failed"
    c_n_size,       \* codec: the class attribute n_size (absent until set is called)
    c_last,         \* codec: the last call of modification and how it ended
    p_instances,    \* pool: Singleton._instances, as the set of <<class, object>> pairs
    p_dbpools,      \* pool: the DBPool objects constructed so far (index = identity)
    p_pooled,       \* pool: the PooledDB objects constructed so far (index = identity)
    p_thread,       \* pool: per thread, its position in one pool request and its locals
    m_pool_,        \* connector: mariaConnect.pool_
    m_autocommit,   \* connector: whether its connections commit each statement
    m_conn_,        \* connector: conn_ ("None", or the state of the connection object)
    db_committed,   \* backend: the committed rows of the table
    db_pending,     \* backend: the table as the connector's open transaction sees it
    m_last,         \* connector: the last call, what it did and how it ended
    l_pc,           \* select's fetch loop: "idle" | "fetching" | "complete" | "returned"
    l_rows,         \* select's fetch loop: the result set the executed query produced
    l_chunk_size,   \* select's fetch loop: the chunk_size argument
    l_cursor,       \* select's fetch loop: the rows the cursor has not handed out yet
    l_result,       \* select's fetch loop: the list result
    l_fetches,      \* select's fetch loop: number of fetchmany calls made
    f_opened,       \* facade: number of databaseConnect(name, override) calls made
    f_open,         \* facade: how the last databaseConnect(name, override) ended
    f_session,      \* facade: the databaseConnect object (name, override, database)
    f_last,         \* facade: the last call on the session and how it ended
    g_db_,          \* document connector: mongoConnect.db_ ("unset" until assigned)
    g_collection,   \* document backend: the documents of collection "c"
    g_last,         \* document connector: the last call, what it did, how it ended
    z_table,        \* table backend: the entities persisted in table "t"
    z_task,         \* table connector: per task, the operation it awaits and its position
    z_clients       \* table connector: the tasks that hold an open TableClient

codecVars == <<c_identifier, c_sequence, c_size, c_chunks, c_merged, c_pc>>
codecApiVars == <<c_n_size, c_last>>
poolVars == <<p_instances, p_dbpools, p_pooled, p_thread>>

mariaVars == <<m_pool_, m_autocommit, m_conn_, db_committed, db_pending, m_last>>

fetchVars == <<l_pc, l_rows, l_chunk_size, l_cursor, l_result, l_fetches>>

facadeVars == <<f_opened, f_open, f_session, f_last>>

mongoVars == <<g_db_, g_collection, g_last>>

azureVars == <<z_table, z_task, z_clients>>

vars == <<codecVars, codecApiVars, poolVars, mariaVars, fetchVars, facadeVars, mongoVars, azureVars>>

\* What an operation of one component leaves alone: the other components.
exceptCodec == <<codecApiVars, poolVars, mariaVars, facadeVars, mongoVars, azureVars, fetchVars>>
exceptPool == <<codecVars, codecApiVars, mariaVars, facadeVars, mongoVars, azureVars, fetchVars>>
exceptMaria == <<codecVars, codecApiVars, poolVars, facadeVars, mongoVars, azureVars, fetchVars>>
exceptFacade == <<codecVars, codecApiVars, poolVars, mariaVars, mongoVars, azureVars, fetchVars>>
exceptMongo == <<codecVars, codecApiVars, poolVars, mariaVars, facadeVars, azureVars, fetchVars>>
exceptFetch == <<codecVars, codecApiVars, poolVars, mariaVars, facadeVars, mongoVars, azureVars>>
exceptAzure == <<codecVars, codecApiVars, poolVars, mariaVars, facadeVars, mongoVars, fetchVars>>

\* Outcome of a call: a returned value or a raised exception.
Ok(v) == [ok |-> TRUE, val |-> v]
Err(kind, msg) == [ok |-> FALSE, err |-> kind, msg |-> msg]

Min(a, b) == IF a < b THEN a ELSE b

(***************************************************************************)
(* Chunk codec                                                             *)
(***************************************************************************)
MaxLen == 3
MaxSize == 3

Alphabet == {"A", "C"}
Identifiers == {"ACC1", "NC_2"}
SequenceInputs == UNION {[1..n -> Alphabet] : n \in 0..MaxLen}
Sizes == (-1)..MaxSize

\* str.encode(): one byte per (ASCII) character.
ByteOf(ch) == IF ch = "A" THEN 65 ELSE 67
CharOf(b) == IF b = 65 THEN "A" ELSE "C"
Encode(s) == [i \in 1..Len(s) |-> ByteOf(s[i])]
Decode(b) == [i \in 1..Len(b) |-> CharOf(b[i])]

\* zstandard.compress / zstandard.decompress: a lossless byte compressor, modelled
\* as a frame holding the content size and run-length blocks.
RunLen(b) ==
    CHOOSE n \in 1..Len(b) :
        /\ \A i \in 1..n : b[i] = b[1]
        /\ (n = Len(b) \/ b[n + 1] # b[1])

RECURSIVE Blocks(_)
Blocks(b) ==
    IF b = <<>> THEN <<>>
    ELSE LET n == RunLen(b)
         IN <<[byte |-> b[1], run |-> n]>> \o Blocks(SubSeq(b, n + 1, Len(b)))

RECURSIVE Expand(_)
Expand(blocks) ==
    IF blocks = <<>> THEN <<>>
    ELSE [i \in 1..blocks[1].run |-> blocks[1].byte] \o Expand(Tail(blocks))

Compress(b) == [magic |-> "28B52FFD", content_size |-> Len(b), blocks |-> Blocks(b)]
Decompress(frame) == Expand(frame.blocks)

\* A range that stops before a last, shorter step.
RangePositionsFloor(len, size) ==
    IF size > 0
    THEN [i \in 1..(len \div size) |-> (i - 1) * size]
    ELSE <<>>

\* range(0, len(sequence), size), ascending; size = 0 is a ValueError in Python,
\* a negative size gives the empty range.
RangePositions(len, size) ==
    IF size > 0
    THEN [i \in 1..((len + size - 1) \div size) |-> (i - 1) * size]
    ELSE <<>>

\* A slice that loses the last character of a full chunk.
SliceShort(sequence, pos, size) ==
    SubSeq(sequence, pos + 1, Min(pos + size, Len(sequence)) - (IF size > 1 THEN 1 ELSE 0))

\* sequence[pos:pos+size]
Slice(sequence, pos, size) == SubSeq(sequence, pos + 1, Min(pos + size, Len(sequence)))

\* formatConversion._split_
_split_(identifier, sequence, size) ==
    IF size = 0
    THEN Err("ValueError", "Error: range() arg 3 must not be zero")
    ELSE LET positions == RangePositions(Len(sequence), size)
         IN Ok([k \in 1..Len(positions) |->
                   [_id |-> identifier \o "_" \o ToString(k - 1),
                    accession_version |-> identifier,
                    sequence |-> Compress(Encode(Slice(sequence, positions[k], size))),
                    chunk_number |-> k - 1]])

\* sorted(sequences, key=lambda x: x['chunk_number']): a stable sort.
RECURSIVE InsertSorted(_, _)
InsertSorted(sorted, x) ==
    IF sorted = <<>> THEN <<x>>
    ELSE IF x.chunk_number < Head(sorted).chunk_number
         THEN <<x>> \o sorted
         ELSE <<Head(sorted)>> \o InsertSorted(Tail(sorted), x)

RECURSIVE SortedByChunkNumber(_)
SortedByChunkNumber(sequences) ==
    IF sequences = <<>> THEN <<>>
    ELSE InsertSorted(SortedByChunkNumber(SubSeq(sequences, 1, Len(sequences) - 1)),
                      sequences[Len(sequences)])

\* "".join(map(lambda x: zstandard.decompress(x['sequence']).decode(), sequences))
RECURSIVE Join(_)
Join(sequences) ==
    IF sequences = <<>> THEN <<>>
    ELSE Decode(Decompress(Head(sequences).sequence)) \o Join(Tail(sequences))

\* A merge that answers the empty list with a record of no identifier.
MergeEmptyRecord(sequences) ==
    IF sequences = <<>>
    THEN Ok([accession_version |-> "", sequence |-> <<>>])
    ELSE Ok([accession_version |-> SortedByChunkNumber(sequences)[1].accession_version,
             sequence |-> Join(SortedByChunkNumber(sequences))])

\* A merge that joins the chunks in the order they were handed in.
MergeAsGiven(sequences) ==
    IF sequences = <<>>
    THEN Err("ValueError", "Error: list index out of range")
    ELSE Ok([accession_version |-> sequences[1].accession_version,
             sequence |-> Join(sequences)])

\* formatConversion._merge_
_merge_(sequences) ==
    LET sorted == SortedByChunkNumber(sequences)
    IN IF sorted = <<>>
       THEN Err("ValueError", "Error: list index out of range")
       ELSE Ok([accession_version |-> sorted[1].accession_version,
                sequence |-> Join(sorted)])

NoResult == [ok |-> FALSE, err |-> "none", msg |-> ""]

\* cls.n_size before set is called: the attribute does not exist.
NoSize == [present |-> FALSE, value |-> 0]

\* int(3*10e4) and int(6*10e3)
MongoSize == 300000
AzureSize == 60000

\* formatConversion.set
SizeFor(target) ==
    [present |-> TRUE, value |-> IF target = "mongodb" THEN MongoSize ELSE AzureSize]

\* The arguments of modification, with their Python type.
InputStr(identifier) == [type |-> "str", identifier |-> identifier, chunks |-> <<>>]
InputList(chunks) == [type |-> "list", identifier |-> "", chunks |-> chunks]
SequenceNone == [type |-> "NoneType", chars |-> <<>>]
SequenceStr(chars) == [type |-> "str", chars |-> chars]
NoCodecCall ==
    [mode |-> "none", input |-> InputStr(""), sequence |-> SequenceNone,
     result |-> NoResult]

InitCodec ==
    /\ c_identifier \in Identifiers
    /\ c_sequence \in SequenceInputs
    /\ c_size \in Sizes
    /\ c_chunks = NoResult
    /\ c_merged = NoResult
    /\ c_pc = "start"
    /\ c_n_size = NoSize
    /\ c_last = NoCodecCall

\* The codec is not used by the other components.
IdleCodec ==
    /\ c_identifier = "ACC1"
    /\ c_sequence = <<>>
    /\ c_size = 1
    /\ c_chunks = NoResult
    /\ c_merged = NoResult
    /\ c_pc = "start"
    /\ c_n_size = NoSize
    /\ c_last = NoCodecCall

\* A caller splits the value.
DoSplit ==
    /\ c_pc = "start"
    /\ c_chunks' = _split_(c_identifier, c_sequence, c_size)
    /\ c_pc' = IF c_chunks'.ok THEN "split" ELSE "failed"
    /\ UNCHANGED <<c_identifier, c_sequence, c_size, c_merged>>
    /\ UNCHANGED exceptCodec

\* The chunks reach the merging caller in any order (they are stored as
\* independent records): two neighbours of the list change places.
Reorder ==
    /\ c_pc = "split"
    /\ \E i \in 1..(Len(c_chunks.val) - 1) :
          c_chunks' = Ok([c_chunks.val EXCEPT ![i] = c_chunks.val[i + 1],
                                               ![i + 1] = c_chunks.val[i]])
    /\ UNCHANGED <<c_identifier, c_sequence, c_size, c_merged, c_pc>>
    /\ UNCHANGED exceptCodec

\* A caller merges the chunk list.
DoMerge ==
    /\ c_pc = "split"
    /\ c_merged' = _merge_(c_chunks.val)
    /\ c_pc' = "merged"
    /\ UNCHANGED <<c_identifier, c_sequence, c_size, c_chunks>>
    /\ UNCHANGED exceptCodec

NextCodec == DoSplit \/ Reorder \/ DoMerge

\* The callers of the public operations.
Targets == {"mongodb", "azure"}
Modes == {"merge", "split", "join"}
StoredChunkLists ==
    {_split_(identifier, sequence, size).val :
        identifier \in Identifiers, sequence \in SequenceInputs, size \in 1..MaxSize}
ModificationInputs ==
    {InputStr(identifier) : identifier \in Identifiers}
        \cup {InputList(chunks) : chunks \in StoredChunkLists}
SequenceArgs == {SequenceNone} \cup {SequenceStr(chars) : chars \in SequenceInputs}

\* except Exception as e: raise ValueError(f"Error: {e}")
WrapValueError(result) ==
    IF result.ok THEN result ELSE Err("ValueError", "Error: " \o result.msg)

\* The body of modification's try block.
ModificationBody(n_size, input, sequence, mode) ==
    IF ~n_size.present
    THEN Err("AttributeError", "type object 'formatConversion' has no attribute 'n_size'")
    ELSE IF n_size.value = 0 THEN Err("AssertionError", "")
    ELSE IF mode = "merge"
         THEN IF input.type # "list" THEN Err("AssertionError", "")
              ELSE _merge_(input.chunks)
    ELSE IF mode = "split"
         THEN IF input.type # "str" THEN Err("AssertionError", "")
              ELSE IF sequence.type = "NoneType" \/ sequence.chars = <<>>
                   THEN Err("AssertionError", "")
              ELSE _split_(input.identifier, sequence.chars, n_size.value)
    ELSE Err("ValueError", "Mode " \o mode \o " does not exist")

\* formatConversion.modification
modification(n_size, input, sequence, mode) ==
    WrapValueError(ModificationBody(n_size, input, sequence, mode))

\* formatConversion.set(target)
SetSize(target) ==
    /\ c_last.mode = "none"
    /\ c_n_size' = SizeFor(target)
    /\ UNCHANGED <<codecVars, c_last>>
    /\ UNCHANGED <<poolVars, mariaVars, fetchVars, facadeVars, mongoVars, azureVars>>

\* formatConversion.modification(input, sequence, mode=mode)
CallModification(input, sequence, mode) ==
    /\ c_last.mode = "none"
    /\ c_last' = [mode |-> mode, input |-> input, sequence |-> sequence,
                  result |-> modification(c_n_size, input, sequence, mode)]
    /\ UNCHANGED <<codecVars, c_n_size>>
    /\ UNCHANGED <<poolVars, mariaVars, fetchVars, facadeVars, mongoVars, azureVars>>

\* The caller has taken the outcome of the call and goes on.
CodecReturn ==
    /\ c_last.mode # "none"
    /\ c_last' = NoCodecCall
    /\ UNCHANGED <<codecVars, c_n_size>>
    /\ UNCHANGED <<poolVars, mariaVars, fetchVars, facadeVars, mongoVars, azureVars>>

NextCodecApi ==
    \/ \E target \in Targets : SetSize(target)
    \/ \E input \in ModificationInputs, sequence \in SequenceArgs, mode \in Modes :
          \* a list is handed in alone (sequence keeps its default None)
          /\ input.type = "list" => sequence = SequenceNone
          /\ CallModification(input, sequence, mode)
    \/ CodecReturn

(***************************************************************************)
(* Pool registry                                                           *)
(***************************************************************************)
NThreads == 2

Threads == 1..NThreads

\* Credential sets as the secret collaborator hands them over.
CredA == [host |-> "db-a", user |-> "ua", password |-> "pa", port |-> "3306"]
CredB == [host |-> "db-b", user |-> "ub", password |-> "pb", port |-> "3307",
          database |-> "record"]
Credentials == {CredA, CredB}

\* {**left, **right}: the keys of right win.
DictMerge(left, right) ==
    [k \in (DOMAIN left) \cup (DOMAIN right) |->
        IF k \in DOMAIN right THEN right[k] ELSE left[k]]

\* DBPool.__post_init__: self._pool_config
PoolConfig(dbc) ==
    DictMerge([creator |-> "pymysql", mincached |-> "1", maxcached |-> "5",
               maxshared |-> "3", maxconnections |-> "10"], dbc)

\* pooledDB(dbargs): db_credential and pool_setting
PoolSetting(dbargs) ==
    LET db_credential ==
            IF "database" \in DOMAIN dbargs
            THEN [host |-> dbargs.host, user |-> dbargs.user,
                  password |-> dbargs.password, port |-> dbargs.port,
                  database |-> dbargs.database, autocommit |-> "True"]
            ELSE [host |-> dbargs.host, user |-> dbargs.user,
                  password |-> dbargs.password, port |-> dbargs.port,
                  autocommit |-> "True"]
    IN DictMerge([creator |-> "pymysql", maxconnections |-> "5", ping |-> "1"],
                 db_credential)

\* The credential fields a pool configuration connects with.
CredentialFields == {"host", "user", "password", "port", "database"}
CredentialsOf(config) ==
    [k \in (DOMAIN config) \cap CredentialFields |-> config[k]]

IdleThread == [pc |-> "idle", via |-> "none", dbc |-> CredA, inst |-> 0, pool |-> 0]

InitPool ==
    /\ p_instances = {}
    /\ p_dbpools = <<>>
    /\ p_pooled = <<>>
    /\ p_thread = [t \in Threads |-> IdleThread]

\* A thread starts DBPool(dbc).get_pool().
RequestDBPool(t, dbc) ==
    /\ p_thread[t].pc = "idle"
    /\ p_thread' = [p_thread EXCEPT ![t] = [@ EXCEPT !.pc = "check", !.via = "DBPool",
                                                      !.dbc = dbc]]
    /\ UNCHANGED <<p_instances, p_dbpools, p_pooled>>
    /\ UNCHANGED exceptPool

\* Singleton.__call__, line 18: if cls not in cls._instances
SingletonCheck(t) ==
    /\ p_thread[t].pc = "check"
    /\ p_thread' = [p_thread EXCEPT ![t].pc =
                        IF \E e \in p_instances : e[1] = "DBPool"
                        THEN "return" ELSE "create"]
    /\ UNCHANGED <<p_instances, p_dbpools, p_pooled>>
    /\ UNCHANGED exceptPool

\* Singleton.__call__, line 19: cls._instances[cls] = super().__call__(*args),
\* which runs DBPool.__init__ and __post_init__ with this thread's arguments.
SingletonCreate(t) ==
    /\ p_thread[t].pc = "create"
    /\ p_dbpools' = Append(p_dbpools, [dbc |-> p_thread[t].dbc,
                                       pool_config |-> PoolConfig(p_thread[t].dbc)])
    /\ p_instances' = {e \in p_instances : e[1] # "DBPool"}
                          \cup {<<"DBPool", Len(p_dbpools')>>}
    /\ p_thread' = [p_thread EXCEPT ![t].pc = "return"]
    /\ UNCHANGED p_pooled
    /\ UNCHANGED exceptPool

\* Singleton.__call__, line 20: return cls._instances[cls]
SingletonReturn(t) ==
    /\ p_thread[t].pc = "return"
    /\ \E e \in p_instances :
          /\ e[1] = "DBPool"
          /\ p_thread' = [p_thread EXCEPT ![t] = [@ EXCEPT !.pc = "get_pool",
                                                            !.inst = e[2]]]
    /\ UNCHANGED <<p_instances, p_dbpools, p_pooled>>
    /\ UNCHANGED exceptPool

\* DBPool.get_pool: return PooledDB(**self._pool_config)
get_pool(t) ==
    /\ p_thread[t].pc = "get_pool"
    /\ p_pooled' = Append(p_pooled, p_dbpools[p_thread[t].inst].pool_config)
    /\ p_thread' = [p_thread EXCEPT ![t] = [@ EXCEPT !.pc = "done",
                                                      !.pool = Len(p_pooled')]]
    /\ UNCHANGED <<p_instances, p_dbpools>>
    /\ UNCHANGED exceptPool

\* pooledDB(dbargs): pooled_DB = PooledDB(**pool_setting); return pooled_DB
pooledDB(t, dbargs) ==
    /\ p_thread[t].pc = "idle"
    /\ p_pooled' = Append(p_pooled, PoolSetting(dbargs))
    /\ p_thread' = [p_thread EXCEPT ![t] = [@ EXCEPT !.pc = "done", !.via = "pooledDB",
                                                      !.dbc = dbargs,
                                                      !.pool = Len(p_pooled')]]
    /\ UNCHANGED <<p_instances, p_dbpools>>
    /\ UNCHANGED exceptPool

NextPool ==
    \/ \E t \in Threads, dbc \in Credentials : RequestDBPool(t, dbc)
    \/ \E t \in Threads : SingletonCheck(t)
    \/ \E t \in Threads : SingletonCreate(t)
    \/ \E t \in Threads : SingletonReturn(t)
    \/ \E t \in Threads : get_pool(t)
    \/ \E t \in Threads, dbc \in Credentials : pooledDB(t, dbc)

(***************************************************************************)
(* Relational connector (mariaConnect) and the table behind it             *)
(***************************************************************************)
MaxRows == 2
MaxCount == 3
MaxChunk == 2

KeyOrder == <<"k1", "k2">>
Keys == {KeyOrder[i] : i \in 1..Len(KeyOrder)}
Columns == {"k", "count", "val"}

\* The rows callers hand to insert and merge, and the batches made of them.
IncomingRows ==
    {[k |-> "k1", count |-> 1, val |-> "x"],
     [k |-> "k1", count |-> 2, val |-> "y"],
     [k |-> "k2", count |-> 1, val |-> "x"]}
\* A row that carries one field more than the others (and than the table).
OddRow == [k |-> "k1", count |-> 1, val |-> "x", note |-> "n"]
\* Batches with the odd row first or later (the fields of a batch are
\* compared with those of its first row).
OddBatches ==
    {<<OddRow>>, <<OddRow, OddRow>>}
        \cup {<<row, OddRow>> : row \in IncomingRows}
        \cup {<<OddRow, row>> : row \in IncomingRows}
Batches == (UNION {[1..n -> IncomingRows] : n \in 1..MaxRows}) \cup OddBatches

\* update_targets: None, a field name, or a list of field names.
TargetNone == [type |-> "NoneType", name |-> "", names |-> {}]
TargetStr(name) == [type |-> "str", name |-> name, names |-> {}]
TargetList(names) == [type |-> "list", name |-> "", names |-> names]
UpdateTargets ==
    {TargetNone, TargetStr("count"), TargetStr("missing"),
     TargetList({}), TargetList({"val"})}
\* increment is tried with None and with a name; a list fails the same
\* type assertion as None does.
IncrementArgs(update_targets) ==
    IF update_targets.type = "list" THEN {FALSE} ELSE BOOLEAN
\* Python truthiness of update_targets
Truthy(update_targets) ==
    \/ update_targets.type = "str" /\ update_targets.name # ""
    \/ update_targets.type = "list" /\ update_targets.names # {}

\* Query texts: the leading word as written, whether the text holds "--", and
\* the rows the WHERE clause selects ("*": all rows).
Queries ==
    {[verb |-> "SELECT", comment |-> FALSE, where |-> "*"],
     [verb |-> "select", comment |-> FALSE, where |-> "k1"],
     [verb |-> "SELECT", comment |-> TRUE, where |-> "*"],
     [verb |-> "DELETE", comment |-> FALSE, where |-> "k1"],
     [verb |-> "Delete", comment |-> FALSE, where |-> "*"],
     [verb |-> "DELETE", comment |-> TRUE, where |-> "k2"],
     [verb |-> "", comment |-> FALSE, where |-> "*"]}
DatabaseArgs == {"None", "record"}
TableNames == {"", "t"}
ChunkSizes == 1..MaxChunk
\* Whether a reconnect attempt succeeds; it is only made on a connection that
\* is not open.
ReconnectOutcomes == IF m_conn_ = "open" THEN {TRUE} ELSE BOOLEAN

\* str.lower() of the leading word
Lower(word) ==
    IF word \in {"SELECT", "select"} THEN "select"
    ELSE IF word \in {"DELETE", "Delete"} THEN "delete"
    ELSE word

NoArgs ==
    [query |-> [verb |-> "", comment |-> FALSE, where |-> "*"], database |-> "None",
     data |-> <<>>, table_name |-> "", update_targets |-> TargetNone,
     increment |-> FALSE, chunk_size |-> 0, reconnect_ok |-> TRUE]

NoReturn == [kind |-> "None", rows |-> <<>>]

NoCall ==
    [op |-> "none", args |-> NoArgs, pre_conn |-> "open", before |-> {},
     pre_pending |-> {}, events |-> <<>>, exc |-> "none", msg |-> "", ret |-> NoReturn,
     rowcount |-> 0, fetches |-> 0]

InitMaria ==
    /\ m_pool_ \in BOOLEAN
    /\ m_autocommit \in BOOLEAN
    /\ m_conn_ = "open"
    /\ db_committed = {}
    /\ db_pending = {}
    /\ m_last = NoCall

IdleMaria ==
    /\ m_pool_ = FALSE
    /\ m_autocommit = FALSE
    /\ m_conn_ = "open"
    /\ db_committed = {}
    /\ db_pending = {}
    /\ m_last = NoCall

\* The running call: the connector and the backend as the call has left them so
\* far, what it did at the backend, and what it raised or returned.
Machine ==
    [conn |-> m_conn_, committed |-> db_committed, pending |-> db_pending,
     events |-> <<>>, rowcount |-> 0, fetches |-> 0, exc |-> "none", msg |-> "",
     ret |-> NoReturn]

Raise(m, kind, msg) == [m EXCEPT !.exc = kind, !.msg = msg]
Raised(m) == m.exc # "none"
Event(m, e) == [m EXCEPT !.events = Append(@, e)]

\* F applied to the value of x (x is evaluated once).
Bind(x, F(_)) == CHOOSE r \in {F(v) : v \in {x}} : TRUE

\* The next statement of a call: skipped once an exception is raised.
Then(m, F(_)) == Bind(m, LAMBDA v : IF Raised(v) THEN v ELSE F(v))

\* except pymysql.MySQLError as e: raise RuntimeError(f"<prefix>: {e}")
\* except Exception as e:          raise RuntimeError(f"{e}")
WrapRuntime(m, prefix) ==
    Bind(m, LAMBDA v :
        IF ~Raised(v) THEN v
        ELSE IF v.exc = "MySQLError"
             THEN [v EXCEPT !.exc = "RuntimeError", !.msg = prefix \o ": " \o v.msg]
             ELSE [v EXCEPT !.exc = "RuntimeError"])

\* ---- backend: the table and the statements the connector sends ----
HasKey(table, key) == \E r \in table : r.k = key
RowOf(table, key) == CHOOSE r \in table : r.k = key
ColumnDefault(c) == IF c = "count" THEN 0 ELSE ""
StoredRow(row) ==
    [c \in Columns |-> IF c \in DOMAIN row THEN row[c] ELSE ColumnDefault(c)]

\* One row of INSERT IGNORE ... [ON DUPLICATE KEY UPDATE ...]: a new key is
\* inserted (1 row affected); an existing key is left alone without the update
\* clause (0 rows), and updated by it otherwise (2 rows, 0 when nothing changes).
\* Variant: the update clause takes the incoming value in either mode.
UpdatedRowIncoming(old, query, row) ==
    [c \in Columns |-> IF c \notin query.columns THEN old[c] ELSE row[c]]

UpdatedRow(old, query, row) ==
    [c \in Columns |->
        IF c \notin query.columns THEN old[c]
        ELSE IF query.on_duplicate = "increment" THEN old[c] + 1
        ELSE row[c]]

ApplyRow(acc, query, row) ==
    Bind(acc, LAMBDA a :
        IF ~HasKey(a.table, row.k)
        THEN [table |-> a.table \cup {StoredRow(row)}, rowcount |-> a.rowcount + 1]
        ELSE IF query.on_duplicate = "none" THEN a
        ELSE Bind(RowOf(a.table, row.k), LAMBDA old :
                Bind(UpdatedRow(old, query, row), LAMBDA new :
                    [table |-> (a.table \ {old}) \cup {new},
                     rowcount |-> a.rowcount + (IF new = old THEN 0 ELSE 2)])))

RECURSIVE ApplyRows(_, _, _)
ApplyRows(acc, query, data) ==
    IF data = <<>> THEN acc
    ELSE ApplyRows(ApplyRow(acc, query, Head(data)), query, Tail(data))

\* What the server answers to the bulk statement on `table`.
InsertEffect(table, query, data) ==
    IF query.on_duplicate # "none" /\ query.columns = {}
    THEN [ok |-> FALSE, msg |-> "(1064, 'You have an error in your SQL syntax')",
          table |-> table, rowcount |-> 0]
    ELSE IF ~(query.columns \subseteq Columns) \/ ~(query.fields \subseteq Columns)
    THEN [ok |-> FALSE, msg |-> "(1054, 'Unknown column in field list')",
          table |-> table, rowcount |-> 0]
    ELSE Bind(ApplyRows([table |-> table, rowcount |-> 0], query, data), LAMBDA acc :
            [ok |-> TRUE, msg |-> "", table |-> acc.table, rowcount |-> acc.rowcount])

Matches(row, query) == query.where = "*" \/ row.k = query.where

DeleteEffect(table, query) ==
    [ok |-> TRUE, msg |-> "", table |-> {r \in table : ~Matches(r, query)},
     rowcount |-> Cardinality({r \in table : Matches(r, query)})]

\* TRUNCATE TABLE empties the table and commits implicitly.
TruncateEffect(table) == [ok |-> TRUE, msg |-> "", table |-> {}, rowcount |-> 0]

\* The result set of a SELECT, in key order.
RECURSIVE ResultSet(_, _, _)
ResultSet(table, query, i) ==
    IF i > Len(KeyOrder) THEN <<>>
    ELSE (IF HasKey(table, KeyOrder[i]) /\ Matches(RowOf(table, KeyOrder[i]), query)
          THEN <<RowOf(table, KeyOrder[i])>> ELSE <<>>)
         \o ResultSet(table, query, i + 1)

\* ---- connector steps ----
\* A ping that tries a second time when the first attempt fails.
PingRetry(m, reconnect_ok) ==
    IF reconnect_ok
    THEN Event([m EXCEPT !.conn = "open", !.pending = m.committed], "connect")
    ELSE Raise(Event(Event(m, "connect_failed"), "connect_failed"), "MySQLError",
               "(2003, 'Can't connect to MySQL server')")

\* mariaConnect.ping: a new connection (and cursor) from the pool or the
\* credentials; the work the old connection left uncommitted is gone.
ping(m, reconnect_ok) ==
    IF reconnect_ok
    THEN Event([m EXCEPT !.conn = "open", !.pending = m.committed], "connect")
    ELSE Raise(Event(m, "connect_failed"), "MySQLError",
               "(2003, 'Can't connect to MySQL server')")

\* if (not self.pool_ and not self.conn_.open) or not self.conn_: self.ping()
CheckConnection(m, reconnect_ok) ==
    IF ~m_pool_
    THEN IF m.conn = "None"
         THEN Raise(m, "AttributeError", "'NoneType' object has no attribute 'open'")
         ELSE IF m.conn # "open" THEN ping(m, reconnect_ok) ELSE m
    ELSE IF m.conn = "None" THEN ping(m, reconnect_ok) ELSE m

\* if database: self.conn_.database = database
SetDatabase(m, database) ==
    IF database = "None" THEN m
    ELSE IF m.conn = "None"
         THEN Raise(m, "AttributeError", "'NoneType' object has no attribute 'database'")
         ELSE Event(m, "set_database")

\* self.cur_.execute / executemany: the cursor works while its connection is open.
Execute(m, effect) ==
    IF m.conn # "open"
    THEN Raise(Event(m, "execute_failed"), "MySQLError",
               IF m.conn = "lost" THEN "(2006, 'MySQL server has gone away')"
               ELSE "Cursor closed")
    ELSE Bind(effect, LAMBDA e :
            IF ~e.ok
            THEN Raise(Event(m, "execute_rejected"), "MySQLError", e.msg)
            ELSE Event([m EXCEPT !.pending = e.table,
                                 !.committed = IF m_autocommit THEN e.table ELSE @,
                                 !.rowcount = e.rowcount], "execute"))

\* self.conn_.commit()
Commit(m) == Event([m EXCEPT !.committed = m.pending], "commit")

\* self.conn_.rollback()
Rollback(m) == Event([m EXCEPT !.pending = m.committed], "rollback")

\* Variant: commits whatever rowcount says.
CommitAlways(m, msg) == Commit(m)

\* if self.cur_.rowcount > 0: commit  else: rollback; raise RuntimeError(msg)
CommitOrRollback(m, msg) ==
    IF m.rowcount > 0 THEN Commit(m) ELSE Raise(Rollback(m), "RuntimeError", msg)

\* A check of the fields that accepts every batch.
UniformKeysUnchecked(data) == TRUE

\* all(row.keys() == fields for row in data[1:])
UniformKeys(data) == \A i \in 1..Len(data) : DOMAIN data[i] = DOMAIN data[1]

\* A fetch that stops after its first page.
FetchOnePage(remaining, chunk_size, result, fetches) ==
    [result |-> result \o SubSeq(remaining, 1, Min(chunk_size, Len(remaining))),
     fetches |-> fetches + 1]

\* self.cur_.fetchmany(size=chunk_size) until a page is shorter than chunk_size
RECURSIVE FetchLoop(_, _, _, _)
FetchLoop(remaining, chunk_size, result, fetches) ==
    LET rst == SubSeq(remaining, 1, Min(chunk_size, Len(remaining)))
    IN IF Len(rst) < chunk_size
       THEN [result |-> result \o rst, fetches |-> fetches + 1]
       ELSE FetchLoop(SubSeq(remaining, Len(rst) + 1, Len(remaining)), chunk_size,
                      result \o rst, fetches + 1)

\* ---- the connector's operations ----
\* A gate that lets every query through.
SelectGateOpen(query) == ""

\* The three asserts that open select: the message of the first one that
\* fails, "" when all pass.
SelectGate(query) ==
    IF query.verb = "" THEN "Please set your query"
    ELSE IF Lower(query.verb) # "select" THEN "Query must start with SELECT"
    ELSE IF query.comment THEN "Please remove comment in the query"
    ELSE ""

\* mariaConnect.select
selectCall(query, database, chunk_size, reconnect_ok) ==
    IF SelectGate(query) # ""
    THEN Raise(Machine, "AssertionError", SelectGate(query))
    ELSE LET Use(m) == SetDatabase(m, database)
             Check(m) == CheckConnection(m, reconnect_ok)
             Run(m) == Execute(m, [ok |-> TRUE, msg |-> "", table |-> m.pending,
                                   rowcount |-> Len(ResultSet(m.pending, query, 1))])
             Fetch(m) ==
                 Bind(FetchLoop(ResultSet(m.pending, query, 1), chunk_size, <<>>, 0),
                      LAMBDA got : [m EXCEPT !.ret = [kind |-> "rows", rows |-> got.result],
                                             !.fetches = got.fetches])
             Body(m) == WrapRuntime(Then(Then(Check(m), Run), Fetch),
                                    "Error while fetching data from the database")
         IN Then(Use(Machine), Body)

\* mariaConnect.insert: lines 213-219, the INSERT IGNORE statement
InsertIgnoreQuery(fields) ==
    [verb |-> "INSERT IGNORE", fields |-> fields, on_duplicate |-> "none", columns |-> {}]

\* mariaConnect.insert
insertCall(data, database, reconnect_ok) ==
    IF data = <<>>
    THEN Raise(Machine, "AssertionError", "Data is empty")
    ELSE IF ~UniformKeys(data)
    THEN Raise(Machine, "AssertionError", "All fields must be identical")
    ELSE LET Use(m) == SetDatabase(m, database)
             Run(m) == Execute(m, InsertEffect(m.pending,
                                               InsertIgnoreQuery(DOMAIN data[1]), data))
             End(m) == CommitOrRollback(m, "No data inserted")
             Body(m) == WrapRuntime(Then(Run(m), End),
                                    "Error while inserting data from the database")
         IN Then(Then(CheckConnection(Machine, reconnect_ok), Use), Body)

\* mariaConnect.merge: lines 273-296, the statement of either mode; the
\* increment mode asserts that update_targets is a string.
MergeQuery(fields, update_targets, increment) ==
    IF increment
    THEN IF update_targets.type # "str"
         THEN [ok |-> FALSE, verb |-> "", fields |-> fields, on_duplicate |-> "none",
               columns |-> {}]
         ELSE [ok |-> TRUE, verb |-> "INSERT IGNORE", fields |-> fields,
               on_duplicate |-> "increment", columns |-> {update_targets.name}]
    ELSE [ok |-> TRUE, verb |-> "INSERT IGNORE", fields |-> fields,
          on_duplicate |-> "values",
          columns |->
              IF Truthy(update_targets)
              THEN IF update_targets.type = "str"
                   THEN {i \in fields : i = update_targets.name}
                   ELSE {i \in fields : i \in update_targets.names}
              ELSE fields]

\* mariaConnect.merge
mergeCall(data, database, update_targets, increment, reconnect_ok) ==
    IF data = <<>>
    THEN Raise(Machine, "AssertionError", "Data is empty")
    ELSE IF ~UniformKeys(data)
    THEN Raise(Machine, "AssertionError", "All fields must be identical")
    ELSE LET Use(m) == SetDatabase(m, database)
             Run(m) ==
                 Bind(MergeQuery(DOMAIN data[1], update_targets, increment), LAMBDA query :
                     IF ~query.ok
                     THEN Raise(m, "AssertionError", "update_targets must be a string")
                     ELSE Execute(m, InsertEffect(m.pending, query, data)))
             End(m) == CommitOrRollback(m, "No data inserted")
             Body(m) == WrapRuntime(Then(Run(m), End),
                                    "Error while inserting data from the database")
         IN Then(Then(CheckConnection(Machine, reconnect_ok), Use), Body)

\* mariaConnect.delete
deleteCall(query, database) ==
    IF query.verb = ""
    THEN Raise(Machine, "AssertionError", "Please set your query")
    ELSE IF Lower(query.verb) # "delete"
    THEN Raise(Machine, "AssertionError", "Query must start with DELETE")
    ELSE IF query.comment
    THEN Raise(Machine, "AssertionError", "Please remove comment in the query")
    ELSE LET Run(m) == Execute(m, DeleteEffect(m.pending, query))
             End(m) == CommitOrRollback(m, "No data deleted")
             True(m) == [m EXCEPT !.ret = [kind |-> "True", rows |-> <<>>]]
             Body(m) == WrapRuntime(Then(Then(Run(m), End), True),
                                    "Error while deleting data from the database")
         IN Then(SetDatabase(Machine, database), Body)

\* mariaConnect.truncate: every exception of the body, the inner RuntimeError
\* included, leaves through the bare except as ValueError.
truncateCall(table_name, database) ==
    LET Run(m) == Execute(m, TruncateEffect(m.pending))
        End(m) == Commit([m EXCEPT !.committed = m.pending])
        True(m) == [m EXCEPT !.ret = [kind |-> "True", rows |-> <<>>]]
        Inner(m) == WrapRuntime(Then(Then(Run(m), End), True),
                                "Error while deleting data from the database")
        Outer(m) == IF Raised(m)
                    THEN [m EXCEPT !.exc = "ValueError",
                                   !.msg = "Please set your table name"]
                    ELSE m
    IN Bind(IF table_name = ""
            THEN Raise(Machine, "AssertionError", "Please set your table name")
            ELSE Inner(Machine), Outer)

\* mariaConnect.close
closeCall ==
    IF Machine.conn = "None" THEN Machine
    ELSE IF m_pool_
    THEN \* the connection goes back to the pool, then the pool itself is closed
         [Event(Event(Event(Machine, "conn.close"), "cur.close"), "pool.close")
             EXCEPT !.conn = "None", !.pending = Machine.committed]
    ELSE IF Machine.conn = "closed"
    THEN Raise(Event(Machine, "conn.close"), "MySQLError", "Already closed")
    ELSE \* conn_medium_ is the credential dict: it has no close()
         Raise([Event(Event(Machine, "conn.close"), "cur.close")
                   EXCEPT !.conn = "closed", !.pending = Machine.committed],
               "AttributeError", "'dict' object has no attribute 'close'")

\* The call ends: the connector and the backend are as the call left them, and
\* the caller holds what the call returned or raised.
Finish(op, args, m) ==
    /\ \E v \in {m} :
          /\ m_conn_' = v.conn
          /\ db_committed' = v.committed
          /\ db_pending' = v.pending
          /\ m_last' = [op |-> op, args |-> args, pre_conn |-> m_conn_,
                        before |-> db_committed, pre_pending |-> db_pending,
                        events |-> v.events, exc |-> v.exc, msg |-> v.msg,
                        ret |-> v.ret, rowcount |-> v.rowcount, fetches |-> v.fetches]
    /\ UNCHANGED <<m_pool_, m_autocommit>>
    /\ UNCHANGED exceptMaria

select(query, database, chunk_size, reconnect_ok) ==
    /\ m_last.op = "none"
    /\ Finish("select", [NoArgs EXCEPT !.query = query, !.database = database,
                                       !.chunk_size = chunk_size],
              selectCall(query, database, chunk_size, reconnect_ok))

insert(data, database, reconnect_ok) ==
    /\ m_last.op = "none"
    /\ Finish("insert", [NoArgs EXCEPT !.data = data, !.database = database,
                                       !.table_name = "t"],
              insertCall(data, database, reconnect_ok))

merge(data, database, update_targets, increment, reconnect_ok) ==
    /\ m_last.op = "none"
    /\ increment \in IncrementArgs(update_targets)
    \* bound: the incremented field stays within MaxCount
    /\ \E m \in {mergeCall(data, database, update_targets, increment, reconnect_ok)} :
          /\ \A r \in m.pending : r.count <= MaxCount
          /\ Finish("merge", [NoArgs EXCEPT !.data = data, !.database = database,
                                            !.table_name = "t",
                                            !.update_targets = update_targets,
                                            !.increment = increment], m)

delete(query, database) ==
    /\ m_last.op = "none"
    /\ Finish("delete", [NoArgs EXCEPT !.query = query, !.database = database],
              deleteCall(query, database))

truncate(table_name, database) ==
    /\ m_last.op = "none"
    /\ Finish("truncate", [NoArgs EXCEPT !.table_name = table_name,
                                         !.database = database],
              truncateCall(table_name, database))

close ==
    /\ m_last.op = "none"
    /\ Finish("close", NoArgs, closeCall)

\* The connection of a non-pooled connector is lost (conn_.open becomes False);
\* the server rolls back what the session had not committed.
ConnectionLost ==
    /\ m_last.op = "none"
    /\ ~m_pool_
    /\ m_conn_ = "open"
    /\ m_conn_' = "lost"
    /\ db_pending' = db_committed
    /\ UNCHANGED <<m_pool_, m_autocommit, db_committed, m_last>>
    /\ UNCHANGED exceptMaria

\* The caller has taken the outcome of the call and goes on.
Return ==
    /\ m_last.op # "none"
    /\ m_last' = NoCall
    /\ UNCHANGED <<m_pool_, m_autocommit, m_conn_, db_committed, db_pending>>
    /\ UNCHANGED exceptMaria

NextMaria ==
    \/ \E query \in Queries, database \in DatabaseArgs, chunk_size \in ChunkSizes,
          reconnect_ok \in ReconnectOutcomes : select(query, database, chunk_size, reconnect_ok)
    \/ \E data \in Batches, database \in DatabaseArgs, reconnect_ok \in ReconnectOutcomes :
          insert(data, database, reconnect_ok)
    \/ \E data \in Batches, update_targets \in UpdateTargets, increment \in BOOLEAN,
          reconnect_ok \in ReconnectOutcomes :
          merge(data, "None", update_targets, increment, reconnect_ok)
    \/ \E query \in Queries, database \in DatabaseArgs : delete(query, database)
    \/ \E table_name \in TableNames, database \in DatabaseArgs :
          truncate(table_name, database)
    \/ close
    \/ ConnectionLost
    \/ Return

(***************************************************************************)
(* The fetch loop of mariaConnect.select, one fetchmany call per step      *)
(***************************************************************************)
MaxFetches == 5

\* select makes no check of chunk_size: the loop runs with the value given.
FetchChunkSizes == -1..MaxChunk
FetchResultSets == UNION {[1..n -> Keys] : n \in 0..MaxRows}

\* cur_.fetchmany(size=chunk_size): the next size rows of the cursor, fewer at
\* its end. How many rows a size below 1 yields is the driver's choice.
PageLengths(cursor, size) ==
    IF size >= 1 THEN {Min(size, Len(cursor))} ELSE 0..Len(cursor)

InitFetch ==
    /\ l_pc = "idle"
    /\ l_rows = <<>>
    /\ l_chunk_size = 1
    /\ l_cursor = <<>>
    /\ l_result = <<>>
    /\ l_fetches = 0

IdleFetch == InitFetch

\* self.cur_.execute(query); result = list(); complete = False
FetchExecute(rows, chunk_size) ==
    /\ l_pc = "idle"
    /\ l_pc' = "fetching"
    /\ l_rows' = rows
    /\ l_chunk_size' = chunk_size
    /\ l_cursor' = rows
    /\ l_result' = <<>>
    /\ l_fetches' = 0
    /\ UNCHANGED exceptFetch

\* One pass of the while loop: rst = fetchmany(size=chunk_size), the rows of
\* rst are appended to result, complete = len(rst) < chunk_size; when complete
\* the loop is left and result returned.
FetchPass(n) ==
    /\ l_pc = "fetching"
    /\ l_fetches < MaxFetches
    /\ n \in PageLengths(l_cursor, l_chunk_size)
    /\ \E rst \in {SubSeq(l_cursor, 1, n)} :
          /\ l_result' = l_result \o rst
          /\ l_pc' = IF Len(rst) < l_chunk_size THEN "returned" ELSE "fetching"
    /\ l_cursor' = SubSeq(l_cursor, n + 1, Len(l_cursor))
    /\ l_fetches' = l_fetches + 1
    /\ UNCHANGED <<l_rows, l_chunk_size>>
    /\ UNCHANGED exceptFetch

\* The caller has the result and may call select again.
FetchReturn ==
    /\ l_pc = "returned"
    /\ l_pc' = "idle"
    /\ l_rows' = <<>>
    /\ l_chunk_size' = 1
    /\ l_cursor' = <<>>
    /\ l_result' = <<>>
    /\ l_fetches' = 0
    /\ UNCHANGED exceptFetch

NextFetch ==
    \/ \E rows \in FetchResultSets, chunk_size \in FetchChunkSizes :
          FetchExecute(rows, chunk_size)
    \/ \E n \in 0..MaxRows : FetchPass(n)
    \/ FetchReturn

(***************************************************************************)
(* Dispatch facade (databaseConnect) and the secret lookup it starts with  *)
(***************************************************************************)
MaxOpens == 2

\* Logical names callers pass: the four the facade documents, the two its
\* select and insert test for, and two it knows nothing of.
LogicalNames ==
    {"signal", "record", "sequence", "azure", "mariadb", "mongodb", "sqlite", ""}
\* The environment of a call: whether a secret is stored for the name, and
\* whether the backend accepts connections.
Environments == [configured : BOOLEAN, reachable : BOOLEAN]

\* get_secret(secret_name, *, path=str(), vault=False): only secret_name binds
\* positionally; then the secret comes from the file at path, from the vault,
\* or from the file the environment variable database_<name> points to.
get_secret(positional, path, vault, env) ==
    IF Len(positional) # 1
    THEN Err("TypeError",
             "get_secret() takes 1 positional argument but "
                 \o ToString(Len(positional)) \o " were given")
    ELSE IF path # ""
    THEN IF env.configured THEN Ok("secret")
         ELSE Err("ValueError", "Failed to get secret on " \o positional[1])
    ELSE IF vault
    THEN IF env.configured THEN Ok("secret")
         ELSE Err("KeyError", "Key vault name is not set in environment variable")
    ELSE IF env.configured THEN Ok("secret")
         ELSE Err("FileNotFoundError", "Secret path not found: " \o positional[1])

\* The connector class __post_init__ picks for a name ("None": no branch).
Variant(name) ==
    IF name = "signal" \/ name = "record" THEN "mariaConnect"
    ELSE IF name = "sequence" THEN "mongoConnect"
    ELSE IF name = "azure" THEN "AzureTable"
    ELSE "None"

NoSession == [name |-> "", override |-> FALSE, database |-> "None", pool_ |-> FALSE,
              closed |-> FALSE]

\* The object lines 37-44 leave behind for a name they know.
Session(name, override) ==
    [name |-> name, override |-> override, database |-> Variant(name),
     pool_ |-> Variant(name) = "mariaConnect", closed |-> FALSE]

\* pooledDB(secret) prints and returns None when the pool cannot be built, and
\* mariaConnect(None, True) then fails on None.connection().
Connect(name, override, env) ==
    IF Variant(name) = "None"
    THEN [Err("TypeError", "Invalid database: " \o name) EXCEPT !.val = NoSession]
    ELSE IF Variant(name) = "mariaConnect" /\ ~env.reachable
    THEN [Err("AttributeError", "'NoneType' object has no attribute 'connection'")
             EXCEPT !.val = NoSession]
    ELSE IF Variant(name) = "mongoConnect" /\ ~env.reachable
    THEN [Err("RuntimeError", "Error connection to the database") EXCEPT !.val = NoSession]
    ELSE [Ok(Session(name, override)) EXCEPT !.err = "none", !.msg = ""]

\* databaseConnect.__post_init__
post_init(name, override, env) ==
    Bind(get_secret(<<name, override>>, "", FALSE, env), LAMBDA secret :
        IF ~secret.ok
        THEN [ok |-> FALSE, err |-> secret.err, msg |-> secret.msg, val |-> NoSession]
        ELSE Connect(name, override, env))

NoOpen == [name |-> "", override |-> FALSE, env |-> [configured |-> FALSE,
           reachable |-> FALSE], ok |-> FALSE, err |-> "none", msg |-> "",
           session |-> NoSession]

NoFacadeArgs ==
    [query |-> "None", database |-> "None", features |-> "None",
     parameters |-> "None", name_filter |-> "None", collection_name |-> "None",
     data |-> "None", table_name |-> "None", is_merge_mode |-> FALSE,
     exception_type |-> "None"]

NoFacadeCall ==
    [op |-> "none", args |-> NoFacadeArgs, reached |-> "none", ret |-> "None",
     exc |-> "none", msg |-> ""]

\* Argument values: absent (None), empty, or set; `assert x` passes on set.
ArgValues == {"None", "set"}
DataValues == {"None", "empty", "set"}
IsSet(x) == x = "set"

\* The connector method the facade calls: it returns, or raises.
ConnectorOutcomes == {"returns", "raises"}

InvalidInput ==
    [reached |-> "none", ret |-> "None", exc |-> "ValueError",
     msg |-> "Invalid input arguments"]
\* A connector call inside the try: whatever it raises leaves as ValueError.
Routed(method, ret, outcome) ==
    IF outcome = "returns"
    THEN [reached |-> method, ret |-> ret, exc |-> "none", msg |-> ""]
    ELSE [InvalidInput EXCEPT !.reached = method]
\* An async method: the call only creates the coroutine.
Coroutine(method) == [reached |-> method, ret |-> "coroutine", exc |-> "none", msg |-> ""]
\* No branch taken: the method falls off its end.
FallThrough == [reached |-> "none", ret |-> "None", exc |-> "none", msg |-> ""]

\* databaseConnect.select
selectDispatch(self, a, outcome) ==
    IF self.name = "mariadb"
    THEN IF ~IsSet(a.query) THEN InvalidInput
         ELSE Routed("select", "rows", outcome)
    ELSE IF self.name = "mongodb"
    THEN IF ~IsSet(a.query) \/ ~IsSet(a.collection_name) THEN InvalidInput
         ELSE Routed("find", "rows", outcome)
    ELSE IF self.name = "azure"
    THEN IF ~IsSet(a.features) \/ ~IsSet(a.parameters) \/ ~IsSet(a.name_filter)
         THEN InvalidInput
         ELSE Coroutine("query_entity")
    ELSE FallThrough

\* databaseConnect.insert; mongoConnect.insert declares *rows, so the keyword
\* rows= does not bind and the call raises inside the try.
insertDispatch(self, a, outcome) ==
    IF self.name = "mariadb"
    THEN IF ~IsSet(a.data) \/ ~IsSet(a.table_name) THEN InvalidInput
         ELSE Routed(IF a.is_merge_mode THEN "merge" ELSE "insert", "None", outcome)
    ELSE IF self.name = "mongodb"
    THEN InvalidInput
    ELSE IF self.name = "azure"
    THEN IF ~IsSet(a.data) \/ ~IsSet(a.database) THEN InvalidInput
         ELSE Coroutine("insert_entity")
    ELSE FallThrough

\* databaseConnect.close: self.database.close(); AzureTable defines no close.
closeDispatch(self) ==
    IF self.database = "AzureTable"
    THEN [reached |-> "none", ret |-> "None", exc |-> "AttributeError",
          msg |-> "'AzureTable' object has no attribute 'close'"]
    ELSE [reached |-> "close", ret |-> "None", exc |-> "none", msg |-> ""]

\* databaseConnect.__exit__
exitDispatch(self, exception_type) ==
    Bind(closeDispatch(self), LAMBDA c :
        IF c.exc # "none" THEN c
        ELSE IF exception_type = "None" THEN [c EXCEPT !.ret = "True"]
        ELSE [c EXCEPT !.exc = "BaseException", !.msg = "Exit error"])

InitFacade ==
    /\ f_opened = 0
    /\ f_open = NoOpen
    /\ f_session = NoSession
    /\ f_last = NoFacadeCall

IdleFacade ==
    /\ f_opened = 0
    /\ f_open = NoOpen
    /\ f_session = NoSession
    /\ f_last = NoFacadeCall

\* A session as __post_init__ leaves it when line 35 has yielded the secret.
InitSession ==
    /\ f_opened = 1
    /\ \E name \in LogicalNames, override \in BOOLEAN :
          /\ Variant(name) # "None"
          /\ f_session = Session(name, override)
          /\ f_open = [name |-> name, override |-> override,
                       env |-> [configured |-> TRUE, reachable |-> TRUE],
                       ok |-> TRUE, err |-> "none", msg |-> "",
                       session |-> f_session]
    /\ f_last = NoFacadeCall

\* databaseConnect(name, override)
Open(name, override, env) ==
    /\ f_opened < MaxOpens
    /\ f_opened' = f_opened + 1
    /\ \E r \in {post_init(name, override, env)} :
          /\ f_open' = [name |-> name, override |-> override, env |-> env,
                        ok |-> r.ok, err |-> r.err, msg |-> r.msg, session |-> r.val]
          /\ f_session' = r.val
    /\ f_last' = NoFacadeCall
    /\ UNCHANGED exceptFacade

FacadeCall(op, args, r) ==
    f_last' = [op |-> op, args |-> args, reached |-> r.reached, ret |-> r.ret,
               exc |-> r.exc, msg |-> r.msg]

FacadeSelect(query, database, features, parameters, name_filter, collection_name, outcome) ==
    /\ f_session.database # "None"
    /\ \E a \in {[NoFacadeArgs EXCEPT !.query = query, !.database = database,
                                      !.features = features,
                                      !.parameters = parameters,
                                      !.name_filter = name_filter,
                                      !.collection_name = collection_name]} :
          FacadeCall("select", a, selectDispatch(f_session, a, outcome))
    /\ UNCHANGED <<f_opened, f_open, f_session>>
    /\ UNCHANGED exceptFacade

FacadeInsert(data, table_name, collection_name, database, is_merge_mode, outcome) ==
    /\ f_session.database # "None"
    /\ \E a \in {[NoFacadeArgs EXCEPT !.data = data, !.table_name = table_name,
                                      !.collection_name = collection_name,
                                      !.database = database,
                                      !.is_merge_mode = is_merge_mode]} :
          FacadeCall("insert", a, insertDispatch(f_session, a, outcome))
    /\ UNCHANGED <<f_opened, f_open, f_session>>
    /\ UNCHANGED exceptFacade

FacadeClose ==
    /\ f_session.database # "None"
    /\ \E r \in {closeDispatch(f_session)} :
          /\ FacadeCall("close", NoFacadeArgs, r)
          /\ f_session' = [f_session EXCEPT !.closed = @ \/ r.reached = "close"]
    /\ UNCHANGED <<f_opened, f_open>>
    /\ UNCHANGED exceptFacade

FacadeExit(exception_type) ==
    /\ f_session.database # "None"
    /\ \E r \in {exitDispatch(f_session, exception_type)} :
          /\ FacadeCall("__exit__", [NoFacadeArgs EXCEPT !.exception_type = exception_type], r)
          /\ f_session' = [f_session EXCEPT !.closed = @ \/ r.reached = "close"]
    /\ UNCHANGED <<f_opened, f_open>>
    /\ UNCHANGED exceptFacade

NextFacade ==
    \E name \in LogicalNames, override \in BOOLEAN, env \in Environments :
        Open(name, override, env)

NextSession ==
    \/ \E query \in ArgValues, database \in ArgValues, features \in ArgValues,
          parameters \in ArgValues, name_filter \in ArgValues,
          collection_name \in ArgValues, outcome \in ConnectorOutcomes :
          FacadeSelect(query, database, features, parameters, name_filter,
                       collection_name, outcome)
    \/ \E data \in DataValues, table_name \in ArgValues, collection_name \in ArgValues,
          database \in ArgValues, is_merge_mode \in BOOLEAN,
          outcome \in ConnectorOutcomes :
          FacadeInsert(data, table_name, collection_name, database, is_merge_mode,
                       outcome)
    \/ FacadeClose
    \/ \E exception_type \in {"None", "KeyError"} : FacadeExit(exception_type)

(***************************************************************************)
(* Document connector (mongoConnect) and the collection behind it          *)
(***************************************************************************)
MaxBatch == 2

DocIds == {"a", "b", "c"}
\* Documents other clients have stored, and documents callers hand in.
StoredDocs == {[_id |-> "a", v |-> 1], [_id |-> "b", v |-> 1]}
IncomingDocs == {[_id |-> i, v |-> 2] : i \in DocIds}
DocBatches == UNION {[1..n -> IncomingDocs] : n \in 0..MaxBatch}

\* Python values as the connector sees them: their type and their content.
PyList(items) == [type |-> "list", items |-> items]
PyTuple(items) == [type |-> "tuple", items |-> items]

\* How a caller passes the leading argument: positionally or by its name.
CallShapes == {"positional", "keyword"}
DocDatabases == {"None", "ift_sequence", "missing"}
DocCollections == {"c", "missing"}
\* admin.command('ping_outcome'): answers, fails to connect, or is refused.
PingOutcomes == {"ok", "ConnectionFailure", "OperationFailure"}
\* Queries: the _ids a filter matches.
DocQueries == {{"a"}, {"a", "b"}, {"c"}}

DocMachine ==
    [db_ |-> g_db_, collection |-> g_collection, inserts |-> 0, replaces |-> 0,
     deletes |-> 0, events |-> <<>>, exc |-> "none", msg |-> "", ret |-> NoReturn]

\* def insert(self, *rows:list, ...) and def delete(self, *query:dict, ...):
\* the starred parameter takes the positional arguments as a tuple, and its
\* name cannot be passed as a keyword.
BindStarred(shape, value, name) ==
    IF shape = "keyword"
    THEN Err("TypeError", "got an unexpected keyword argument '" \o name \o "'")
    ELSE Ok(PyTuple(<<value>>))

\* mongoConnect.ping
mongoPing(m, ping_outcome) ==
    IF ping_outcome = "ok" THEN Event(m, "ping")
    ELSE IF ping_outcome = "ConnectionFailure" THEN Event(Event(m, "ping"), "connect")
    ELSE Raise(Event(m, "ping"), "RuntimeError", "Error encountered")

\* if database: self.check_database(database); self.db_ = self.conn_[database]
UseDatabase(m, database) ==
    IF database = "None" THEN m
    ELSE IF database = "missing"
    THEN Raise(m, "AssertionError", "Please check your database name")
    ELSE [m EXCEPT !.db_ = database]

\* self.check_collection(collection_name); self.col_ = self.db_[collection_name]
UseCollection(m, collection_name) ==
    IF m.db_ = "unset"
    THEN Raise(m, "AttributeError", "'mongoConnect' object has no attribute 'db_'")
    ELSE IF collection_name = "missing"
    THEN Raise(m, "AssertionError", "Please check your collection name")
    ELSE m

HasId(collection, id) == \E d \in collection : d._id = id

\* insert_many(rows), ordered: documents go in one by one up to the first
\* duplicate _id, which ends the call with BulkWriteError.
RECURSIVE InsertMany(_, _)
InsertMany(m, rows) ==
    IF rows = <<>> THEN m
    ELSE IF HasId(m.collection, Head(rows)._id)
    THEN Raise(Event(m, "insert_many"), "BulkWriteError", "E11000 duplicate key error")
    ELSE InsertMany([m EXCEPT !.collection = @ \cup {Head(rows)},
                              !.inserts = @ + 1], Tail(rows))

\* bulk_write(records_to_write): ReplaceOne(upsert) for the _ids found in the
\* collection, InsertOne for the others.
RECURSIVE BulkWrite(_, _, _)
BulkWrite(m, rows, duplicate_records) ==
    IF rows = <<>> THEN Event(m, "bulk_write")
    ELSE IF Head(rows)._id \in duplicate_records
    THEN BulkWrite([m EXCEPT !.collection =
                                 {d \in @ : d._id # Head(rows)._id} \cup {Head(rows)},
                             !.replaces = @ + 1], Tail(rows), duplicate_records)
    ELSE IF HasId(m.collection, Head(rows)._id)
    THEN \* raised inside the handler: the sibling except clauses do not apply
         Raise(Event(m, "bulk_write"), "BulkWriteError", "E11000 duplicate key error")
    ELSE BulkWrite([m EXCEPT !.collection = @ \cup {Head(rows)}, !.inserts = @ + 1],
                   Tail(rows), duplicate_records)

\* What another client of the same collection does meanwhile: nothing, the
\* insert of a document, or the delete of one.
OtherWrites ==
    {[kind |-> "none", _id |-> "a"], [kind |-> "insert", _id |-> "a"],
     [kind |-> "delete", _id |-> "a"]}
OtherWrite(collection, other) ==
    IF other.kind = "insert" /\ ~HasId(collection, other._id)
    THEN collection \cup {[_id |-> other._id, v |-> 1]}
    ELSE IF other.kind = "delete" THEN {d \in collection : d._id # other._id}
    ELSE collection

\* except pymongo.errors.BulkWriteError: (lines 168-188); the handler names no
\* exception, so the e of line 188 is unbound. The ids are read by find
\* (lines 172-173) and written by bulk_write (line 186): the other client's
\* write falls between the two.
OnBulkWriteError(m, rows, is_merge_mode, other) ==
    IF m.exc # "BulkWriteError" THEN m
    ELSE IF is_merge_mode
    THEN BulkWrite([m EXCEPT !.exc = "none", !.msg = "",
                             !.collection = OtherWrite(@, other)], rows,
                   {rows[i]._id : i \in {j \in DOMAIN rows : HasId(m.collection, rows[j]._id)}})
    ELSE [m EXCEPT !.exc = "NameError", !.msg = "name 'e' is not defined"]

\* mongoConnect.insert
mongoInsertCall(shape, data, collection_name, database, is_merge_mode, ping_outcome, other) ==
    Bind(BindStarred(shape, PyList(data), "rows"), LAMBDA rows :
        IF ~rows.ok THEN Raise(DocMachine, rows.err, rows.msg)
        ELSE IF rows.val.type # "list"
        THEN Raise(DocMachine, "AssertionError", "Please set your data as list")
        ELSE IF Len(rows.val.items) = 0
        THEN Raise(DocMachine, "AssertionError", "Please set your data")
        ELSE LET Use(m) == UseDatabase(m, database)
                 Col(m) == UseCollection(m, collection_name)
                 Many(m) == InsertMany(m, rows.val.items)
                 Body(m) == OnBulkWriteError(Then(Col(m), Many), rows.val.items,
                                             is_merge_mode, other)
             IN Then(Then(mongoPing(DocMachine, ping_outcome), Use), Body))

\* delete_many(query): the filter must be a mapping.
DeleteMany(m, query) ==
    IF query.type # "dict"
    THEN Raise(Event(m, "delete_many"), "TypeError",
               "filter must be an instance of dict")
    ELSE Event([m EXCEPT !.collection = {d \in @ : d._id \notin query.items},
                         !.deletes = Cardinality({d \in m.collection :
                                                     d._id \in query.items})],
               "delete_many")

\* Variant: deletes whatever override says.
DeleteGateOpen(m, query, override) == DeleteMany(m, query)

\* if override: self.col_.delete_many(query)
DeleteGate(m, query, override) == IF override THEN DeleteMany(m, query) ELSE m

\* mongoConnect.delete
mongoDeleteCall(shape, filter, collection_name, database, override, ping_outcome) ==
    Bind(BindStarred(shape, [type |-> "dict", items |-> filter], "query"), LAMBDA query :
        IF ~query.ok THEN Raise(DocMachine, query.err, query.msg)
        ELSE IF Len(query.val.items) = 0
        THEN Raise(DocMachine, "AssertionError", "Please set your query")
        ELSE LET Use(m) == UseDatabase(m, database)
                 Col(m) == UseCollection(m, collection_name)
                 Del(m) == DeleteGate(m, query.val, override)
                 Body(m) == Then(Col(m), Del)
             IN Then(Then(mongoPing(DocMachine, ping_outcome), Use), Body))

NoDocArgs ==
    [shape |-> "positional", data |-> <<>>, filter |-> {}, collection_name |-> "c",
     database |-> "None", is_merge_mode |-> FALSE, override |-> FALSE, ping |-> "ok",
     other |-> "none"]

NoDocCall ==
    [op |-> "none", args |-> NoDocArgs, before |-> {}, inserts |-> 0, replaces |-> 0,
     deletes |-> 0, events |-> <<>>, exc |-> "none", msg |-> ""]

InitMongo ==
    /\ g_db_ = "unset"
    /\ g_collection \in SUBSET StoredDocs
    /\ g_last = NoDocCall

IdleMongo ==
    /\ g_db_ = "unset"
    /\ g_collection = {}
    /\ g_last = NoDocCall

DocFinish(op, args, m) ==
    /\ g_db_' = m.db_
    /\ g_collection' = m.collection
    /\ g_last' = [op |-> op, args |-> args, before |-> g_collection,
                  inserts |-> m.inserts, replaces |-> m.replaces,
                  deletes |-> m.deletes, events |-> m.events, exc |-> m.exc,
                  msg |-> m.msg]
    /\ UNCHANGED exceptMongo

mongoInsert(shape, data, collection_name, database, is_merge_mode, ping_outcome, other) ==
    /\ g_last.op = "none"
    /\ \E m \in {mongoInsertCall(shape, data, collection_name, database, is_merge_mode, ping_outcome, other)} :
          DocFinish("insert", [NoDocArgs EXCEPT !.shape = shape, !.data = data,
                                                !.collection_name = collection_name,
                                                !.database = database,
                                                !.is_merge_mode = is_merge_mode,
                                                !.ping = ping_outcome,
                                                !.other = other.kind], m)

mongoDelete(shape, filter, collection_name, database, override, ping_outcome) ==
    /\ g_last.op = "none"
    /\ \E m \in {mongoDeleteCall(shape, filter, collection_name, database, override, ping_outcome)} :
          DocFinish("delete", [NoDocArgs EXCEPT !.shape = shape, !.filter = filter,
                                                !.collection_name = collection_name,
                                                !.database = database,
                                                !.override = override,
                                                !.ping = ping_outcome], m)

\* Another client writes to the collection while the connector is idle.
OtherWriter(other) ==
    /\ g_last.op = "none"
    /\ g_collection' = OtherWrite(g_collection, other)
    /\ g_collection' # g_collection
    /\ UNCHANGED <<g_db_, g_last>>
    /\ UNCHANGED exceptMongo

\* The caller has taken the outcome of the call and goes on.
DocReturn ==
    /\ g_last.op # "none"
    /\ g_last' = NoDocCall
    /\ UNCHANGED <<g_db_, g_collection>>
    /\ UNCHANGED exceptMongo

NextMongo ==
    \/ \E shape \in CallShapes, data \in DocBatches, collection_name \in DocCollections,
          database \in DocDatabases, is_merge_mode \in BOOLEAN, ping_outcome \in PingOutcomes,
          other \in OtherWrites :
          /\ other.kind # "none"
                => /\ is_merge_mode
                   /\ shape = "positional"
                   /\ collection_name = "c"
                   /\ database = "ift_sequence"
                   /\ ping_outcome = "ok"
          /\ mongoInsert(shape, data, collection_name, database, is_merge_mode, ping_outcome, other)
    \/ \E shape \in CallShapes, filter \in DocQueries, collection_name \in DocCollections,
          database \in DocDatabases, override \in BOOLEAN, ping_outcome \in PingOutcomes :
          mongoDelete(shape, filter, collection_name, database, override, ping_outcome)
    \/ \E other \in OtherWrites : OtherWriter(other)
    \/ DocReturn

(***************************************************************************)
(* Wide-column-table connector (AzureTable); its operations are coroutines  *)
(***************************************************************************)
MaxTasks == 2

Tasks == 1..MaxTasks

\* Entities callers hand in: two the service accepts and a malformed one.
Entity(name, valid) == [name |-> name, valid |-> valid]
E1 == Entity("e1", TRUE)
E2 == Entity("e2", TRUE)
EBad == Entity("bad", FALSE)
PyDict(entity) == [type |-> "dict", items |-> <<entity>>]

\* The calls the tasks make.
AzureCalls ==
    {[op |-> "insert_entity", entity |-> PyDict(E1), table_name |-> "t"],
     [op |-> "insert_entity", entity |-> PyList(<<E2>>), table_name |-> "t"],
     [op |-> "insert_entity", entity |-> PyList(<<E1, E2>>), table_name |-> "t"],
     [op |-> "insert_entity", entity |-> PyList(<<E1, EBad, E2>>), table_name |-> "t"],
     [op |-> "insert_entity", entity |-> PyDict(E1), table_name |-> ""],
     [op |-> "delete_entity", entity |-> PyDict(E1), table_name |-> "t"],
     [op |-> "delete_entity", entity |-> PyList(<<E1, E2>>), table_name |-> "t"],
     [op |-> "query_entity", entity |-> PyDict(E1), table_name |-> "t"]}

\* Whether the storage service can be reached when the request is sent.
ServiceOutcomes == {"up", "down"}

NoRequest == [kind |-> "none", operations |-> <<>>]
NoAnswer == [exc |-> "none", msg |-> ""]
IdleTask ==
    [pc |-> "idle", call |-> [op |-> "none", entity |-> PyList(<<>>), table_name |-> ""],
     request |-> NoRequest, answer |-> NoAnswer, exc |-> "none", msg |-> ""]

\* Variant: the operations carry no merge mode.
FormatBatchNoMode(entities, ctype) ==
    [i \in DOMAIN entities |-> <<ctype, entities[i]>>]

\* AzureTable._format_batch_operation
_format_batch_operation(entities, ctype) ==
    [i \in DOMAIN entities |->
        IF ctype = "upsert" \/ ctype = "update"
        THEN <<ctype, entities[i], [mode |-> "merge"]>>
        ELSE <<ctype, entities[i]>>]

\* The request an operation sends inside its client scope.
Request(call) ==
    IF call.op = "query_entity"
    THEN [kind |-> "query_entities", operations |-> <<>>]
    ELSE IF call.entity.type = "dict" \/ Len(call.entity.items) = 1
    THEN [kind |-> IF call.op = "insert_entity" THEN "upsert_entity" ELSE "delete_entity",
          operations |-> <<call.entity>>]
    ELSE [kind |-> "submit_transaction",
          operations |-> _format_batch_operation(call.entity.items,
                             IF call.op = "insert_entity" THEN "upsert" ELSE "delete")]

\* assert table_name; assert type(entity) == list or type(entity) == dict
AssertsPass(call) == call.table_name # "" /\ call.entity.type \in {"list", "dict"}

\* The service applies a transaction wholly or not at all: it rejects one
\* that holds a malformed entity, or a delete of an entity it does not hold.
TransactionAccepted(table, operations) ==
    \A i \in DOMAIN operations :
        /\ operations[i][2].valid
        /\ operations[i][1] = "delete" => operations[i][2].name \in table

TransactionEffect(table, operations) ==
    LET upserts == {operations[i][2].name : i \in {j \in DOMAIN operations :
                                                     operations[j][1] = "upsert"}}
        deletes == {operations[i][2].name : i \in {j \in DOMAIN operations :
                                                     operations[j][1] = "delete"}}
    IN (table \cup upserts) \ deletes

\* What the awaited request does to the table and how it ends. A single-entity
\* request is handed the caller's object as it is: a dict is an entity, a
\* one-element list is not. The awaited query result is not awaitable in every
\* release of the service library.
Serve(table, request, service, awaitable) ==
    IF service = "down"
    THEN [table |-> table, exc |-> "HttpResponseError", msg |-> "service unreachable"]
    ELSE IF request.kind = "submit_transaction"
    THEN IF TransactionAccepted(table, request.operations)
         THEN [table |-> TransactionEffect(table, request.operations),
               exc |-> "none", msg |-> ""]
         ELSE [table |-> table, exc |-> "TableTransactionError",
               msg |-> "the transaction was rejected"]
    ELSE IF request.kind = "query_entities"
    THEN IF awaitable THEN [table |-> table, exc |-> "none", msg |-> ""]
         ELSE [table |-> table, exc |-> "TypeError",
               msg |-> "object can't be used in 'await' expression"]
    ELSE IF request.operations[1].type # "dict"
    THEN [table |-> table, exc |-> "TypeError", msg |-> "entity is not a mapping"]
    ELSE IF ~request.operations[1].items[1].valid
    THEN [table |-> table, exc |-> "HttpResponseError", msg |-> "malformed entity"]
    ELSE IF request.kind = "upsert_entity"
    THEN [table |-> table \cup {request.operations[1].items[1].name},
          exc |-> "none", msg |-> ""]
    ELSE [table |-> table \ {request.operations[1].items[1].name},
          exc |-> "none", msg |-> ""]

\* The except clauses of an operation.
AzureExcept(op, answer) ==
    IF answer.exc = "none" THEN answer
    ELSE IF op = "query_entity"
    THEN IF answer.exc = "HttpResponseError"
         THEN [exc |-> "RuntimeError", msg |-> "Error while querying entity: " \o answer.msg]
         ELSE answer
    ELSE IF answer.exc = "TableTransactionError"
    THEN [exc |-> "RuntimeError",
          msg |-> (IF op = "insert_entity" THEN "Error while updating entity: "
                   ELSE "Error while deleting entity: ") \o answer.msg]
    ELSE [exc |-> "RuntimeError",
          msg |-> (IF op = "insert_entity" THEN "" ELSE "Error: ") \o answer.msg]

\* Variant: the client is released only when the body did not raise.
ReleaseOnSuccess(clients, t, answer) ==
    IF answer.exc = "none" THEN clients \ {t} ELSE clients

\* async with TableClient.from_connection_string(...) as tClient: the exit.
ReleaseClient(clients, t, answer) == clients \ {t}

InitAzure ==
    /\ z_table \in SUBSET {"e1"}
    /\ z_task = [t \in Tasks |-> IdleTask]
    /\ z_clients = {}

IdleAzure ==
    /\ z_table = {}
    /\ z_task = [t \in Tasks |-> IdleTask]
    /\ z_clients = {}

\* The task calls an operation: the coroutine exists, nothing has run.
AzCall(t, call) ==
    /\ z_task[t].pc = "idle"
    /\ z_task' = [z_task EXCEPT ![t] = [IdleTask EXCEPT !.pc = "pending", !.call = call]]
    /\ UNCHANGED <<z_table, z_clients>>
    /\ UNCHANGED exceptAzure

\* The coroutine runs to its first suspension: the asserts, then the client
\* scope is entered and the request is sent.
AzEnter(t) ==
    /\ z_task[t].pc = "pending"
    /\ IF AssertsPass(z_task[t].call)
       THEN /\ z_task' = [z_task EXCEPT ![t].pc = "awaiting",
                                        ![t].request = Request(z_task[t].call)]
            /\ z_clients' = z_clients \cup {t}
       ELSE /\ z_task' = [z_task EXCEPT ![t].pc = "done",
                                        ![t].exc = "AssertionError",
                                        ![t].msg = "Please set your table name"]
            /\ UNCHANGED z_clients
    /\ UNCHANGED z_table
    /\ UNCHANGED exceptAzure

\* The awaited request completes, with a result or an exception.
AzAnswer(t, service, awaitable) ==
    /\ z_task[t].pc = "awaiting"
    /\ \E r \in {Serve(z_table, z_task[t].request, service, awaitable)} :
          /\ z_table' = r.table
          /\ z_task' = [z_task EXCEPT ![t].pc = "leaving",
                                      ![t].answer = [exc |-> r.exc, msg |-> r.msg]]
    /\ UNCHANGED z_clients
    /\ UNCHANGED exceptAzure

\* The client scope is left and the operation returns or raises.
AzExit(t) ==
    /\ z_task[t].pc = "leaving"
    /\ z_clients' = ReleaseClient(z_clients, t, z_task[t].answer)
    /\ \E r \in {AzureExcept(z_task[t].call.op, z_task[t].answer)} :
          z_task' = [z_task EXCEPT ![t].pc = "done", ![t].exc = r.exc, ![t].msg = r.msg]
    /\ UNCHANGED z_table
    /\ UNCHANGED exceptAzure

\* The awaiting caller has taken the outcome.
AzReturn(t) ==
    /\ z_task[t].pc = "done"
    /\ z_task' = [z_task EXCEPT ![t] = IdleTask]
    /\ UNCHANGED <<z_table, z_clients>>
    /\ UNCHANGED exceptAzure

NextAzure ==
    \/ \E t \in Tasks, call \in AzureCalls : AzCall(t, call)
    \/ \E t \in Tasks : AzEnter(t)
    \/ \E t \in Tasks, service \in ServiceOutcomes, awaitable \in BOOLEAN :
          AzAnswer(t, service, awaitable)
    \/ \E t \in Tasks : AzExit(t)
    \/ \E t \in Tasks : AzReturn(t)

(***************************************************************************)
(* Specifications                                                          *)
(***************************************************************************)
CodecInit == InitCodec /\ InitPool /\ IdleMaria /\ IdleFacade /\ IdleMongo /\ IdleAzure /\ IdleFetch
SpecCodec == CodecInit /\ [][NextCodec]_vars

CodecApiInit == IdleCodec /\ InitPool /\ IdleMaria /\ IdleFacade /\ IdleMongo /\ IdleAzure /\ IdleFetch
SpecCodecApi == CodecApiInit /\ [][NextCodecApi]_vars

PoolInit == IdleCodec /\ InitPool /\ IdleMaria /\ IdleFacade /\ IdleMongo /\ IdleAzure /\ IdleFetch
SpecPool == PoolInit /\ [][NextPool]_vars

MariaInit == IdleCodec /\ InitPool /\ InitMaria /\ IdleFacade /\ IdleMongo /\ IdleAzure /\ IdleFetch
SpecMaria == MariaInit /\ [][NextMaria]_vars

FacadeInit == IdleCodec /\ InitPool /\ IdleMaria /\ InitFacade /\ IdleMongo /\ IdleAzure /\ IdleFetch
SpecFacade == FacadeInit /\ [][NextFacade]_vars

SessionInit == IdleCodec /\ InitPool /\ IdleMaria /\ InitSession /\ IdleMongo /\ IdleAzure /\ IdleFetch
SpecSession == SessionInit /\ [][NextSession]_vars

MongoInit == IdleCodec /\ InitPool /\ IdleMaria /\ IdleFacade /\ InitMongo /\ IdleAzure /\ IdleFetch
SpecMongo == MongoInit /\ [][NextMongo]_vars

FetchInit == IdleCodec /\ InitPool /\ IdleMaria /\ IdleFacade /\ IdleMongo /\ IdleAzure /\ InitFetch
SpecFetch == FetchInit /\ [][NextFetch]_vars

AzureInit == IdleCodec /\ InitPool /\ IdleMaria /\ IdleFacade /\ IdleMongo /\ InitAzure /\ IdleFetch
SpecAzure == AzureInit /\ [][NextAzure]_vars

(***************************************************************************)
(* Claims                                                                  *)
(***************************************************************************)

\* C1 (as stated): for every identifier, every string s and every positive chunk
\* size, merging the chunk list of split(id, s, c) returns exactly id and s.
C1_RoundTripEveryString ==
    (c_pc = "merged" /\ c_size > 0) =>
        c_merged = Ok([accession_version |-> c_identifier, sequence |-> c_sequence])

\* C1 (amended): for every identifier, every non-empty string s and every positive
\* chunk size, merging the chunk list of split(id, s, c), in any order of the
\* chunks, returns exactly id and s.
C1_RoundTripNonEmpty ==
    (c_pc = "merged" /\ c_size > 0 /\ c_sequence # <<>>) =>
        c_merged = Ok([accession_version |-> c_identifier, sequence |-> c_sequence])

\* A value of several chunks, the last one shorter, has been split and merged back.
C1_Witness ==
    /\ c_pc = "merged"
    /\ c_size = 2
    /\ Len(c_sequence) = 3
    /\ Len(c_chunks.val) = 2
    /\ c_merged.ok
    /\ c_merged.val.sequence = c_sequence

\* C2: two pool requests made with an identical credential set return the same
\* pool object (the pool is constructed on the first request only).
C2_SamePoolForSameCredentials ==
    \A t1, t2 \in Threads :
        (/\ p_thread[t1].pc = "done"
         /\ p_thread[t2].pc = "done"
         /\ p_thread[t1].dbc = p_thread[t2].dbc) =>
            p_thread[t1].pool = p_thread[t2].pool

\* C3: the pool returned for a request is configured with the credentials of
\* that request, also when a pool was requested with other credentials before.
C3_PoolHasRequestedCredentials ==
    \A t \in Threads :
        p_thread[t].pc = "done" =>
            CredentialsOf(p_pooled[p_thread[t].pool]) = p_thread[t].dbc

\* C4: in every interleaving of concurrent first requests the registry's
\* check-then-create constructs exactly one object per key, and all threads
\* receive that same object.
C4_ConstructOncePerKey ==
    /\ \A dbc \in Credentials :
          Cardinality({i \in 1..Len(p_dbpools) : p_dbpools[i].dbc = dbc}) <= 1
    /\ \A t1, t2 \in Threads :
          (/\ p_thread[t1].inst # 0
           /\ p_thread[t2].inst # 0
           /\ p_thread[t1].dbc = p_thread[t2].dbc) =>
              p_thread[t1].inst = p_thread[t2].inst


\* ---- helpers over the outcome of the last call ----
Ran(event) == \E i \in DOMAIN m_last.events : m_last.events[i] = event
LastEvent == m_last.events[Len(m_last.events)]
Incoming(key) == {i \in DOMAIN m_last.args.data : m_last.args.data[i].k = key}
LastIncoming(key) == m_last.args.data[CHOOSE i \in Incoming(key) : \A j \in Incoming(key) : j <= i]
RelationalOps == {"select", "insert", "merge", "delete", "truncate"}
\* The call's arguments pass the assertions at the head of the operation.
AcceptedArgs ==
    CASE m_last.op = "select" ->
            Lower(m_last.args.query.verb) = "select" /\ ~m_last.args.query.comment
      [] m_last.op = "delete" ->
            Lower(m_last.args.query.verb) = "delete" /\ ~m_last.args.query.comment
      [] m_last.op = "truncate" -> m_last.args.table_name # ""
      [] OTHER -> TRUE

\* C5: every relational operation issued on a connector that is closed or
\* whose connection is stale first attempts a reconnect (its first step at the
\* backend is the connect), and never runs its statement on the dead handle.
C5_ImplicitReconnect ==
    (m_last.op \in RelationalOps /\ m_last.pre_conn # "open" /\ AcceptedArgs)
        => \E i \in DOMAIN m_last.events :
              /\ m_last.events[i] \in {"connect", "connect_failed"}
              /\ \A j \in 1..(i - 1) : m_last.events[j] = "set_database"

\* C6: an insert whose statement affects at least one row ends with a commit
\* and no error; one that affects no row ends with a rollback and the error
\* "No data inserted", and the table is exactly what it was before the call.
C6_InsertOutcome ==
    (m_last.op = "insert" /\ Ran("execute"))
        => IF m_last.rowcount > 0
           THEN /\ LastEvent = "commit"
                /\ m_last.exc = "none"
                /\ db_committed = db_pending
                /\ db_committed # m_last.before
           ELSE /\ LastEvent = "rollback"
                /\ m_last.exc = "RuntimeError"
                /\ m_last.msg = "No data inserted"
                /\ db_committed = m_last.before
                /\ db_pending = m_last.before

C6_Witness ==
    /\ m_last.op = "insert"
    /\ Ran("execute")
    /\ m_last.rowcount = 0
    /\ m_last.before # {}
    /\ m_last.msg = "No data inserted"

\* C7: a merge in increment mode on field "count" leaves, for every stored
\* row whose key comes in, count = previous count + 1 per incoming row of that
\* key, whatever count the incoming rows carry, leaves the other fields as
\* they were, and commits.
C7_MergeIncrement ==
    (/\ m_last.op = "merge"
     /\ m_last.args.increment
     /\ m_last.args.update_targets = TargetStr("count")
     /\ Ran("execute"))
        => \A old \in m_last.before :
              Incoming(old.k) # {}
                 => /\ HasKey(db_committed, old.k)
                    /\ RowOf(db_committed, old.k).count
                           = old.count + Cardinality(Incoming(old.k))
                    /\ RowOf(db_committed, old.k).val = old.val
                    /\ LastEvent = "commit"
                    /\ m_last.exc = "none"

C7_Witness ==
    /\ m_last.op = "merge"
    /\ m_last.args.increment
    /\ m_last.args.update_targets = TargetStr("count")
    /\ Ran("commit")
    /\ \E old \in m_last.before :
          /\ Incoming(old.k) # {}
          /\ LastIncoming(old.k).count # 1
          /\ RowOf(db_committed, old.k).count = old.count + 1

\* C8: a merge in field-merge mode overwrites, for every stored row whose key
\* comes in, exactly the fields update_targets lists (all fields when it is
\* None) with the incoming values, and leaves every other field as it was.
ListedFields(update_targets) ==
    IF update_targets.type = "NoneType" THEN Columns
    ELSE IF update_targets.type = "str" THEN {update_targets.name}
    ELSE update_targets.names

C8_FieldMergeFrame ==
    (/\ m_last.op = "merge"
     /\ ~m_last.args.increment
     /\ Ran("execute"))
        => \A old \in m_last.before :
              Incoming(old.k) # {}
                 => /\ HasKey(db_pending, old.k)
                    /\ \A c \in Columns :
                          RowOf(db_pending, old.k)[c] =
                             IF c \in ListedFields(m_last.args.update_targets)
                             THEN LastIncoming(old.k)[c]
                             ELSE old[c]

\* C9: opening a session whose secret is stored and whose backend is reachable
\* yields a pooled relational connector for "signal" and "record", a document
\* connector for "sequence" and a table connector for "azure"; every other
\* name fails with TypeError "Invalid database: <name>" and yields no connector.
C9_VariantSelection ==
    (f_opened > 0 /\ f_open.env.configured /\ f_open.env.reachable)
        => IF f_open.name \in {"signal", "record"}
           THEN f_open.ok /\ f_open.session.database = "mariaConnect"
                          /\ f_open.session.pool_
           ELSE IF f_open.name = "sequence"
           THEN f_open.ok /\ f_open.session.database = "mongoConnect"
           ELSE IF f_open.name = "azure"
           THEN f_open.ok /\ f_open.session.database = "AzureTable"
           ELSE /\ ~f_open.ok
                /\ f_open.err = "TypeError"
                /\ f_open.msg = "Invalid database: " \o f_open.name
                /\ f_open.session.database = "None"

\* The arguments the variant of the session requires are all supplied.
RequiredArgsSupplied ==
    LET a == f_last.args
    IN CASE f_last.op = "select" /\ f_session.database = "mariaConnect" -> IsSet(a.query)
         [] f_last.op = "select" /\ f_session.database = "mongoConnect" ->
                IsSet(a.query) /\ IsSet(a.collection_name)
         [] f_last.op = "select" /\ f_session.database = "AzureTable" ->
                IsSet(a.features) /\ IsSet(a.parameters) /\ IsSet(a.name_filter)
                    /\ IsSet(a.database)
         [] f_last.op = "insert" /\ f_session.database = "mariaConnect" ->
                IsSet(a.data) /\ IsSet(a.table_name)
         [] f_last.op = "insert" /\ f_session.database = "mongoConnect" ->
                IsSet(a.data) /\ IsSet(a.collection_name)
         [] f_last.op = "insert" /\ f_session.database = "AzureTable" ->
                IsSet(a.data) /\ IsSet(a.database)
         [] OTHER -> FALSE

\* The connector method a call is to reach.
ExpectedMethods ==
    CASE f_last.op = "select" /\ f_session.database = "mariaConnect" -> {"select"}
      [] f_last.op = "select" /\ f_session.database = "mongoConnect" -> {"find"}
      [] f_last.op = "select" /\ f_session.database = "AzureTable" -> {"query_entity"}
      [] f_last.op = "insert" /\ f_session.database = "mariaConnect" -> {"insert", "merge"}
      [] f_last.op = "insert" /\ f_session.database = "mongoConnect" -> {"insert"}
      [] f_last.op = "insert" /\ f_session.database = "AzureTable" -> {"insert_entity"}
      [] OTHER -> {}

\* C10: on a session of a recognised name, a select or insert that supplies
\* the arguments its variant requires reaches the matching method of the
\* session's connector; it never returns without reaching the connector.
C10_Routing ==
    (f_last.op \in {"select", "insert"} /\ RequiredArgsSupplied)
        => f_last.reached \in ExpectedMethods

\* The subset of arguments the facade is to validate for the session's variant.
ValidatedArgsSupplied ==
    LET a == f_last.args
    IN CASE f_last.op = "select" /\ f_session.database = "mariaConnect" -> IsSet(a.query)
         [] f_last.op = "select" /\ f_session.database = "mongoConnect" ->
                IsSet(a.query) /\ IsSet(a.collection_name)
         [] f_last.op = "select" /\ f_session.database = "AzureTable" ->
                IsSet(a.features) /\ IsSet(a.parameters) /\ IsSet(a.name_filter)
         [] f_last.op = "insert" /\ f_session.database = "mariaConnect" ->
                IsSet(a.data) /\ IsSet(a.table_name)
         [] f_last.op = "insert" /\ f_session.database = "mongoConnect" ->
                IsSet(a.data) /\ IsSet(a.collection_name)
         [] f_last.op = "insert" /\ f_session.database = "AzureTable" ->
                IsSet(a.data) /\ IsSet(a.database)
         [] OTHER -> TRUE

\* C11: on a session of any variant, a select or insert that lacks an argument
\* its variant requires fails with ValueError "Invalid input arguments" and
\* reaches no connector method.
C11_ArgumentValidation ==
    (f_last.op \in {"select", "insert"} /\ ~ValidatedArgsSupplied)
        => /\ f_last.exc = "ValueError"
           /\ f_last.msg = "Invalid input arguments"
           /\ f_last.reached = "none"

\* C12: leaving the scope of a session of any variant, after a body that
\* returned or one that failed, closes the session's connector.
C12_ScopedRelease ==
    (f_last.op = "__exit__")
        => /\ f_last.reached = "close"
           /\ f_session.closed
           /\ f_last.exc \in {"none", "BaseException"}

\* ---- helpers over the outcome of the last document call ----
\* The call names an existing database and collection, passes its leading
\* argument positionally, and the server answers the ping.
DocCallAccepted ==
    /\ g_last.args.shape = "positional"
    /\ g_last.args.database = "ift_sequence"
    /\ g_last.args.collection_name = "c"
    /\ g_last.args.ping # "OperationFailure"
DocRows == g_last.args.data
DistinctIds == \A i, j \in DOMAIN DocRows : DocRows[i]._id = DocRows[j]._id => i = j
DuplicateRows == {i \in DOMAIN DocRows : HasId(g_last.before, DocRows[i]._id)}

\* C13: a document insert in merge mode of n rows, k of which carry an _id the
\* collection already holds, performs n-k inserts and k replaces and raises
\* no error.
C13_MergeModeCounts ==
    (/\ g_last.op = "insert"
     /\ g_last.args.is_merge_mode
     /\ DocCallAccepted
     /\ DocRows # <<>>
     /\ DistinctIds)
        => /\ g_last.exc = "none"
           /\ g_last.inserts = Len(DocRows) - Cardinality(DuplicateRows)
           /\ g_last.replaces = Cardinality(DuplicateRows)

\* C14: a document insert without merge mode that meets an existing _id ends
\* with RuntimeError and performs no replace.
C14_DuplicateIsFatal ==
    (/\ g_last.op = "insert"
     /\ ~g_last.args.is_merge_mode
     /\ DocCallAccepted
     /\ DistinctIds
     /\ DuplicateRows # {})
        => /\ g_last.exc = "RuntimeError"
           /\ g_last.replaces = 0

\* C15: a document delete with override false removes nothing, leaves the
\* collection as it was and raises nothing when the call is otherwise
\* acceptable; the collection changes only in a delete with override true.
C15_DeleteGate ==
    (g_last.op = "delete")
        => /\ ~g_last.args.override
              => /\ g_collection = g_last.before
                 /\ g_last.deletes = 0
                 /\ DocCallAccepted => g_last.exc = "none"
           /\ g_collection # g_last.before => g_last.args.override

C15_Witness ==
    /\ g_last.op = "delete"
    /\ ~g_last.args.override
    /\ DocCallAccepted
    /\ \E d \in g_last.before : d._id \in g_last.args.filter
    /\ g_last.exc = "none"
    /\ g_collection = g_last.before

\* ---- helpers over the table connector's tasks ----
IsBatchInsert(call) ==
    call.op = "insert_entity" /\ call.entity.type = "list" /\ Len(call.entity.items) > 1
InFlight == {t \in Tasks : z_task[t].pc \in {"pending", "awaiting", "leaving"}}

\* C16: an insert_entity of a list of more than one entity sends one
\* transaction of (upsert, entity, mode merge) operations, one per entity in
\* input order; when the batch holds an entity the service rejects, the table
\* is left as it was and the call ends with the one RuntimeError made from the
\* transaction error.
C16_BatchAtomicity ==
    [][\A t \in Tasks :
          IsBatchInsert(z_task[t].call)
             => /\ (z_task[t].pc = "pending" /\ z_task'[t].pc = "awaiting")
                      => z_task'[t].request =
                            [kind |-> "submit_transaction",
                             operations |->
                                 [i \in DOMAIN z_task[t].call.entity.items |->
                                     <<"upsert", z_task[t].call.entity.items[i],
                                       [mode |-> "merge"]>>]]
                /\ (/\ z_task[t].pc = "awaiting"
                    /\ z_task'[t].pc = "leaving"
                    /\ \E i \in DOMAIN z_task[t].call.entity.items :
                          ~z_task[t].call.entity.items[i].valid)
                      => /\ z_table' = z_table
                         /\ z_task'[t].answer.exc # "none"
                /\ (/\ z_task[t].pc = "leaving"
                    /\ z_task'[t].pc = "done"
                    /\ z_task[t].answer.exc = "TableTransactionError")
                      => /\ z_task'[t].exc = "RuntimeError"
                         /\ z_task'[t].msg = "Error while updating entity: "
                                                \o z_task[t].answer.msg]_vars

C16_Witness ==
    \E t \in Tasks :
        /\ z_task[t].pc = "done"
        /\ IsBatchInsert(z_task[t].call)
        /\ \E i \in DOMAIN z_task[t].call.entity.items :
              ~z_task[t].call.entity.items[i].valid
        /\ z_task[t].exc = "RuntimeError"
        /\ z_task[t].msg = "Error while updating entity: the transaction was rejected"
        /\ z_table = {}

\* C17: a client is open exactly for the tasks that are inside an operation's
\* client scope: never more clients than operations in flight, none held by
\* an operation that has ended (with a result or an exception), and none at
\* all once every operation has ended.
C17_ClientScoping ==
    /\ z_clients = {t \in Tasks : z_task[t].pc \in {"awaiting", "leaving"}}
    /\ Cardinality(z_clients) <= Cardinality(InFlight)
    /\ InFlight = {} => z_clients = {}

C17_Witness ==
    /\ \E t \in Tasks : z_task[t].pc = "done" /\ z_task[t].exc = "RuntimeError"
    /\ \E t \in Tasks : z_task[t].pc = "awaiting"
    /\ Cardinality(z_clients) = 1

\* C19: merging the chunks of one record gives the same identifier and the
\* same sequence whatever order the list is in: the outcome of merging the
\* reordered list is the outcome of merging the list as split produced it.
C19_MergeOrderIndependent ==
    c_pc = "merged" =>
        c_merged = _merge_(_split_(c_identifier, c_sequence, c_size).val)

\* Three chunks were merged from a list that began with the last chunk.
C19_Witness ==
    /\ c_pc = "merged"
    /\ Len(c_chunks.val) = 3
    /\ c_chunks.val[1].chunk_number = 2
    /\ c_chunks.val # _split_(c_identifier, c_sequence, c_size).val
    /\ c_merged = Ok([accession_version |-> c_identifier, sequence |-> c_sequence])

\* C20: on a configured codec, the public split of an empty sequence returns
\* the empty chunk list and raises nothing.
C20_PublicSplitEmpty ==
    (/\ c_n_size.present
     /\ c_last.mode = "split"
     /\ c_last.input.type = "str"
     /\ c_last.sequence = SequenceStr(<<>>))
        => c_last.result = Ok(<<>>)

\* C18: a select whose query does not start, in any letter case, with SELECT,
\* or that holds the comment marker "--", is rejected with an AssertionError
\* before anything is done with the connection: no database switch, no
\* reconnect, no execute, no fetch, and connection and tables as they were.
C18_SelectGate ==
    (/\ m_last.op = "select"
     /\ (Lower(m_last.args.query.verb) # "select" \/ m_last.args.query.comment))
        => /\ m_last.exc = "AssertionError"
           /\ m_last.events = <<>>
           /\ m_last.fetches = 0
           /\ m_last.ret = NoReturn
           /\ m_conn_ = m_last.pre_conn
           /\ db_committed = m_last.before
           /\ db_pending = m_last.pre_pending

\* A SELECT holding a comment, with a database to switch to, was rejected on a
\* connection that would otherwise have been reconnected.
C18_Witness ==
    /\ m_last.op = "select"
    /\ Lower(m_last.args.query.verb) = "select"
    /\ m_last.args.query.comment
    /\ m_last.args.database = "record"
    /\ m_last.pre_conn = "lost"
    /\ m_last.msg = "Please remove comment in the query"
    /\ m_conn_ = "lost"

\* C21: merging the empty chunk list fails with ValueError, the codec's
\* validation error, and gives no record; a merge that gives a record gives
\* it the identifier of the chunks, never an empty one.
C21_MergeEmptyFails ==
    c_pc = "merged" =>
        /\ c_chunks.val = <<>> => (~c_merged.ok /\ c_merged.err = "ValueError")
        /\ c_merged.ok => (/\ c_merged.val.accession_version = c_identifier
                           /\ c_merged.val.accession_version # "")

\* The empty chunk list (of an empty sequence) was merged, and the merge failed.
C21_Witness ==
    /\ c_pc = "merged"
    /\ c_chunks = Ok(<<>>)
    /\ c_sequence = <<>>
    /\ c_merged = Err("ValueError", "Error: list index out of range")

\* C22: for every non-empty sequence and every size <= 0, zero and negative
\* alike, split fails with ValueError and returns no chunk list.
C22_NonPositiveSizeRejected ==
    (c_pc # "start" /\ c_size <= 0 /\ c_sequence # <<>>)
        => (~c_chunks.ok /\ c_chunks.err = "ValueError")

\* ---- helpers over chunk lists ----
CeilDiv(a, b) == (a + b - 1) \div b
ChunkText(chunk) == Decode(Decompress(chunk.sequence))

\* C23: for a sequence of length L and a size c >= 1, split returns ceil(L/c)
\* chunks in ascending position order: the i-th (from 0) has chunk_number i,
\* the identifier as parent, the id "<identifier>_<i>", and the characters
\* i*c+1 .. min((i+1)*c, L) of the sequence, so every chunk but the last
\* holds c characters and the last holds 1..c.
C23_ChunkLayout ==
    [][(c_pc = "start" /\ c_pc' # "start" /\ c_size >= 1)
          => /\ c_chunks'.ok
             /\ Len(c_chunks'.val) = CeilDiv(Len(c_sequence), c_size)
             /\ \A k \in DOMAIN c_chunks'.val :
                   /\ c_chunks'.val[k].chunk_number = k - 1
                   /\ c_chunks'.val[k].accession_version = c_identifier
                   /\ c_chunks'.val[k]._id = c_identifier \o "_" \o ToString(k - 1)
                   /\ ChunkText(c_chunks'.val[k])
                         = SubSeq(c_sequence, (k - 1) * c_size + 1,
                                  Min(k * c_size, Len(c_sequence)))
                   /\ Len(ChunkText(c_chunks'.val[k])) \in 1..c_size
                   /\ k < Len(c_chunks'.val)
                         => Len(ChunkText(c_chunks'.val[k])) = c_size
             /\ \A j, k \in DOMAIN c_chunks'.val :
                   j # k => c_chunks'.val[j]._id # c_chunks'.val[k]._id]_vars

\* A sequence of three characters was split by two: a full chunk, then a
\* shorter last one.
C23_Witness ==
    /\ c_pc = "split"
    /\ c_size = 2
    /\ Len(c_sequence) = 3
    /\ Len(c_chunks.val) = 2
    /\ c_chunks.val[1].chunk_number = 0
    /\ Len(ChunkText(c_chunks.val[1])) = 2
    /\ Len(ChunkText(c_chunks.val[2])) = 1

\* C25: close() on a connector that holds a connection ends without error and
\* leaves the connector disconnected (conn_ is None); it releases the
\* connector's own cursor and connection only: the pool of a pooled connector
\* is not closed.
C25_CloseReleasesOwn ==
    (m_last.op = "close" /\ m_last.pre_conn # "None")
        => /\ m_last.exc = "none"
           /\ m_conn_ = "None"
           /\ Ran("conn.close")
           /\ Ran("cur.close")
           /\ ~Ran("pool.close")

\* ---- helpers: failures of the backend client and how they reach the caller ----
BackendFailed ==
    Ran("connect_failed") \/ Ran("execute_failed") \/ Ran("execute_rejected")
BackendMessages ==
    {"(2003, 'Can't connect to MySQL server')", "(2006, 'MySQL server has gone away')",
     "Cursor closed", "(1064, 'You have an error in your SQL syntax')",
     "(1054, 'Unknown column in field list')"}
ConnectorPrefixes ==
    {"", "Error while fetching data from the database: ",
     "Error while inserting data from the database: ",
     "Error while deleting data from the database: "}

\* C26: a relational operation during which the backend client failed (on the
\* reconnect or on the statement) ends with one of the connector's own error
\* kinds, never the backend's exception type, and its message holds the
\* backend's message.
C26_BackendErrorsWrapped ==
    (m_last.op \in RelationalOps /\ BackendFailed)
        => /\ m_last.exc \in {"RuntimeError", "ValueError"}
           /\ \E prefix \in ConnectorPrefixes, original \in BackendMessages :
                 m_last.msg = prefix \o original

\* C27: a delete whose statement removes at least one row is committed and
\* returns True; one that removes no row is rolled back and ends with the
\* error "No data deleted", the table being what it was; a query that does
\* not start with DELETE or that holds "--" is rejected before anything is
\* executed.
C27_DeleteOutcome ==
    m_last.op = "delete" =>
        /\ (Lower(m_last.args.query.verb) # "delete" \/ m_last.args.query.comment)
              => /\ m_last.exc = "AssertionError"
                 /\ m_last.events = <<>>
                 /\ db_committed = m_last.before
                 /\ db_pending = m_last.pre_pending
        /\ Ran("execute")
              => IF m_last.rowcount > 0
                 THEN /\ LastEvent = "commit"
                      /\ m_last.exc = "none"
                      /\ m_last.ret.kind = "True"
                      /\ db_committed = db_pending
                      /\ \A r \in db_committed : ~Matches(r, m_last.args.query)
                      /\ db_committed # m_last.pre_pending
                 ELSE /\ LastEvent = "rollback"
                      /\ m_last.exc = "RuntimeError"
                      /\ m_last.msg = "No data deleted"
                      /\ db_committed = m_last.before
                      /\ db_pending = m_last.before

\* A delete by a key that is not stored ran on a table that holds rows, and
\* was rolled back.
C27_Witness ==
    /\ m_last.op = "delete"
    /\ Ran("execute")
    /\ m_last.rowcount = 0
    /\ m_last.before # {}
    /\ LastEvent = "rollback"
    /\ m_last.msg = "No data deleted"

\* ---- helpers over the batch of the last call ----
MixedKeySets ==
    \E i \in DOMAIN m_last.args.data :
        DOMAIN m_last.args.data[i] # DOMAIN m_last.args.data[1]

\* C28: an insert or merge of a batch in which some row's key set differs
\* from the first row's is rejected with "All fields must be identical"
\* before any statement, commit or rollback (and before any reconnect); a
\* batch whose rows share one key set is never rejected for that reason.
C28_UniformKeys ==
    (m_last.op \in {"insert", "merge"} /\ m_last.args.data # <<>>)
        => IF MixedKeySets
           THEN /\ m_last.exc = "AssertionError"
                /\ m_last.msg = "All fields must be identical"
                /\ m_last.events = <<>>
                /\ m_conn_ = m_last.pre_conn
                /\ db_committed = m_last.before
                /\ db_pending = m_last.pre_pending
           ELSE m_last.msg # "All fields must be identical"

\* A merge of a batch whose second row has a field more than the first was
\* rejected on a lost connection, which stays as it was.
C28_Witness ==
    /\ m_last.op = "merge"
    /\ Len(m_last.args.data) = 2
    /\ DOMAIN m_last.args.data[2] # DOMAIN m_last.args.data[1]
    /\ m_last.pre_conn = "lost"
    /\ m_last.msg = "All fields must be identical"
    /\ m_last.events = <<>>

\* ---- helpers over the events of the last call ----
CountEvents(kinds) ==
    Cardinality({i \in DOMAIN m_last.events : m_last.events[i] \in kinds})
Reconnects == CountEvents({"connect", "connect_failed"})
Statements == CountEvents({"execute", "execute_failed", "execute_rejected"})

\* C29: a select that executes returns every row of the result set once, in
\* the backend's order, fetched in pages of chunk_size rows up to and
\* including the first page shorter than chunk_size (an empty one when the
\* number of rows is a multiple of chunk_size).
C29_SelectPagination ==
    (m_last.op = "select" /\ Ran("execute"))
        => /\ m_last.exc = "none"
           /\ m_last.ret.kind = "rows"
           /\ m_last.ret.rows = ResultSet(db_pending, m_last.args.query, 1)
           /\ m_last.fetches = (Len(m_last.ret.rows) \div m_last.args.chunk_size) + 1

\* Two rows were fetched in pages of two: a full page, then an empty one.
C29_Witness ==
    /\ m_last.op = "select"
    /\ m_last.args.chunk_size = 2
    /\ Len(m_last.ret.rows) = 2
    /\ m_last.ret.rows[1] # m_last.ret.rows[2]
    /\ m_last.fetches = 2

\* The call's arguments let it build its statement (merge in increment mode
\* requires update_targets to be one field name).
StatementBuilt ==
    (m_last.op = "merge" /\ m_last.args.increment)
        => m_last.args.update_targets.type = "str"

\* C30 (as stated): one call attempts at most one reconnect; when the
\* reconnect fails the call ends with the connection failure and issues no
\* statement; when it succeeds the statement is issued exactly once.
C30_ReissuedExactlyOnce ==
    m_last.op \in RelationalOps =>
        /\ Reconnects <= 1
        /\ Ran("connect_failed") => (Statements = 0 /\ m_last.exc # "none")
        /\ Ran("connect") => Statements = 1

\* C30 (amended): one call attempts at most one reconnect; when the reconnect
\* fails the call ends there with the connection failure as its error and
\* issues no statement; when it succeeds the statement of the call is issued
\* exactly once, unless the arguments give no statement (then none is issued).
C30_SingleReconnect ==
    m_last.op \in RelationalOps =>
        /\ Reconnects <= 1
        /\ Statements <= 1
        /\ Ran("connect_failed")
              => /\ LastEvent = "connect_failed"
                 /\ Statements = 0
                 /\ m_last.exc # "none"
                 /\ \E prefix \in ConnectorPrefixes :
                       m_last.msg = prefix \o "(2003, 'Can't connect to MySQL server')"
        /\ (Ran("connect") /\ StatementBuilt) => Statements = 1

\* A select found its connection lost, the one reconnect failed, and the call
\* ended with that failure.
C30_Witness ==
    /\ m_last.op = "select"
    /\ m_last.pre_conn = "lost"
    /\ m_last.events = <<"connect_failed">>
    /\ m_last.exc = "RuntimeError"
    /\ m_conn_ = "lost"

\* C37: insert_entity and delete_entity called with a list of exactly one
\* entity hand the backend that entity, the mapping itself and never the
\* enclosing list, and so end as the same call with the mapping would: no
\* error that comes from the shape of the argument.
C37_SingleEntityPath ==
    \A t \in Tasks :
        (/\ z_task[t].pc \in {"awaiting", "leaving", "done"}
         /\ z_task[t].request.kind \in {"upsert_entity", "delete_entity"})
            => /\ z_task[t].request.operations[1].type = "dict"
               /\ z_task[t].answer.exc # "TypeError"

\* ---- helpers: where in the last call an event took place ----
EventsAt(kind) == {i \in DOMAIN m_last.events : m_last.events[i] = kind}

\* C33: when a call that was given a database has to reconnect, its statement
\* runs on a connection switched to that database: the switch is made on the
\* connection the reconnect produced, not on the one it replaced.
C33_DatabaseSurvivesReconnect ==
    (/\ m_last.op \in {"select", "insert", "merge"}
     /\ m_last.args.database # "None"
     /\ Ran("connect")
     /\ Ran("execute"))
        => \E i \in EventsAt("set_database") : \A j \in EventsAt("connect") : j < i

\* C34: when an insert, merge or delete has returned or raised, the
\* connection holds no uncommitted change, and a call whose statement reached
\* the backend (whether it succeeded or was answered with an error) has ended
\* with exactly one commit or rollback.
C34_NoPendingTransaction ==
    m_last.op \in {"insert", "merge", "delete"} =>
        /\ db_pending = db_committed
        /\ (Ran("execute") \/ Ran("execute_rejected"))
              => CountEvents({"commit", "rollback"}) = 1

\* C35: a close() issued after an earlier close() of the same connector (the
\* handle is None, or is the connection the earlier close() already closed)
\* makes no backend call, raises no error and leaves the handle cleared.
C35_CloseIdempotent ==
    (m_last.op = "close" /\ m_last.pre_conn \in {"None", "closed"})
        => /\ m_last.events = <<>>
           /\ m_last.exc = "none"
           /\ m_conn_ = "None"

\* C31: a document insert in merge mode with acceptable arguments, while
\* another client inserts or deletes a document of the same collection, ends
\* without error and every row of the batch is in the collection afterwards.
C31_MergeUnderConcurrentWriter ==
    (/\ g_last.op = "insert"
     /\ g_last.args.is_merge_mode
     /\ g_last.args.other # "none"
     /\ DocCallAccepted
     /\ DocRows # <<>>)
        => /\ g_last.exc = "none"
           /\ \A i \in DOMAIN DocRows : DocRows[i] \in g_collection

C32_FetchLoopEnds ==
    /\ (l_pc = "returned" /\ l_chunk_size >= 1)
          => l_fetches = (Len(l_rows) \div l_chunk_size) + 1
    /\ l_pc = "fetching" => l_fetches <= Len(l_rows)
====
